---- MODULE Spec2Model ----
(***************************************************************************)
(* Model of the recommendation and personalisation core of the course      *)
(* knowledge-graph backend:                                                *)
(*   - CrossDomainService   (src/services/cross_domain_service.py)         *)
(*   - LearningPathService  (src/backend/services/learning_path_service.py)*)
(*   - LearnerProfileService (src/backend/learner_profile_service.py)      *)
(*   - the /ai-search and /learner/batch-analyze handlers                  *)
(*     (src/backend/main.py)                                               *)
(*                                                                         *)
(* Representation.  Python str values are TLA+ strings; Python lists are   *)
(* sequences.  A float is an exact rational <<n, d>> with d > 0; the       *)
(* similarity scores and confidences of the model are hundredths.  The     *)
(* Python value None is the string None below when it stands where a str   *)
(* is expected and the one-element list <<None>> where a list is expected. *)
(* An exception raised by a helper is the value Raise.  The pass-through   *)
(* fields url, rating and university of a course take no part in any       *)
(* decision of the modelled code and are left out of the records.          *)
(***************************************************************************)
EXTENDS Integers, Sequences, FiniteSets, TLC

None == "<None>"
NoneList == <<None>>
Raise == "<raise>"

(***************************************************************************)
(* Rationals                                                               *)
(***************************************************************************)
Rat(n, d) == <<n, d>>
Hundredths(n) == <<n, 100>>
RatGe(a, b) == a[1] * b[2] >= b[1] * a[2]
RatGt(a, b) == a[1] * b[2] > b[1] * a[2]
RatAdd(a, b) == <<a[1] * b[2] + b[1] * a[2], a[2] * b[2]>>

(***************************************************************************)
(* Python str helpers                                                      *)
(***************************************************************************)
UpperToLower ==
    [A |-> "a", B |-> "b", C |-> "c", D |-> "d", E |-> "e", F |-> "f",
     G |-> "g", H |-> "h", I |-> "i", J |-> "j", K |-> "k", L |-> "l",
     M |-> "m", N |-> "n", O |-> "o", P |-> "p", Q |-> "q", R |-> "r",
     S |-> "s", T |-> "t", U |-> "u", V |-> "v", W |-> "w", X |-> "x",
     Y |-> "y", Z |-> "z"]

\* str.lower(): character by character (the text is split in halves to keep
\* the recursion shallow)
RECURSIVE lower(_)
lower(s) ==
    IF Len(s) = 0 THEN ""
    ELSE IF Len(s) = 1
    THEN (IF s \in DOMAIN UpperToLower THEN UpperToLower[s] ELSE s)
    ELSE LET h == Len(s) \div 2
         IN  lower(SubSeq(s, 1, h)) \o lower(SubSeq(s, h + 1, Len(s)))

\* Python: keyword in text
Contains(text, keyword) ==
    \E i \in 1..(Len(text) - Len(keyword) + 1) :
        SubSeq(text, i, i + Len(keyword) - 1) = keyword

\* Python: sep.join(parts)
RECURSIVE Join(_, _)
Join(parts, sep) ==
    IF Len(parts) = 0 THEN ""
    ELSE IF Len(parts) = 1 THEN parts[1]
    ELSE parts[1] \o sep \o Join(Tail(parts), sep)

Range(seq) == {seq[i] : i \in 1..Len(seq)}
Take(seq, n) == SubSeq(seq, 1, IF n < Len(seq) THEN n ELSE Len(seq))

RECURSIVE SelectSeq2(_, _)
SelectSeq2(seq, keep) ==
    IF Len(seq) = 0 THEN <<>>
    ELSE (IF seq[1] \in keep THEN <<seq[1]>> ELSE <<>>)
             \o SelectSeq2(Tail(seq), keep)

(***************************************************************************)
(* CrossDomainService.DOMAIN_KEYWORDS, in registration order               *)
(***************************************************************************)
DOMAIN_KEYWORDS == <<
    [domain |-> "Computer Science", keywords |-> <<
        "programming", "python", "java", "javascript", "software", "algorithm",
        "data structure", "web development", "machine learning", "ai", "database",
        "sql", "cloud computing", "devops", "linux", "coding", "computer">>],
    [domain |-> "Business", keywords |-> <<
        "business", "management", "marketing", "finance", "accounting", "leadership",
        "strategy", "entrepreneurship", "operations", "economics", "MBA", "sales",
        "business plan", "financial analysis", "project management">>],
    [domain |-> "Data Science", keywords |-> <<
        "data science", "data analysis", "statistics", "analytics", "big data",
        "visualization", "tableau", "r programming", "pandas", "numpy", "data mining",
        "predictive modeling", "statistical analysis">>],
    [domain |-> "Engineering", keywords |-> <<
        "engineering", "mechanical", "electrical", "civil", "chemical", "physics",
        "circuits", "thermodynamics", "materials", "systems", "design", "CAD">>],
    [domain |-> "Mathematics", keywords |-> <<
        "mathematics", "calculus", "algebra", "linear algebra", "probability",
        "mathematical", "theorem", "geometry", "trigonometry", "discrete math">>],
    [domain |-> "Arts & Humanities", keywords |-> <<
        "art", "music", "literature", "writing", "philosophy", "history",
        "creative", "design", "film", "media", "communication", "humanities">>],
    [domain |-> "Health & Medicine", keywords |-> <<
        "health", "medicine", "medical", "healthcare", "nursing", "biology",
        "anatomy", "clinical", "public health", "epidemiology", "patient">>],
    [domain |-> "Social Sciences", keywords |-> <<
        "psychology", "sociology", "anthropology", "political science", "economics",
        "social", "behavioral", "research methods", "survey">> ] >>

\* sum(1 for keyword in keywords if keyword in text_to_analyze)
KeywordScore(keywords, text) ==
    Cardinality({k \in 1..Len(keywords) : Contains(text, keywords[k])})

\* variant: among the domains with the highest score the last one wins
FirstMaxDomain_LastWins(scores) ==
    LET scored == {d \in 1..Len(scores) : scores[d] > 0}
        best   == CHOOSE d \in scored :
                      /\ \A e \in scored : scores[e] <= scores[d]
                      /\ \A e \in scored : scores[e] = scores[d] => e <= d
    IN  IF scored = {} THEN "Other" ELSE DOMAIN_KEYWORDS[best].domain

\* max(domain_scores, key=domain_scores.get): the first key, in insertion
\* order, that carries the highest score
FirstMaxDomain(scores) ==
    LET scored == {d \in 1..Len(scores) : scores[d] > 0}
        best   == CHOOSE d \in scored :
                      /\ \A e \in scored : scores[e] <= scores[d]
                      /\ \A e \in scored : scores[e] = scores[d] => d <= e
    IN  IF scored = {} THEN "Other" ELSE DOMAIN_KEYWORDS[best].domain

\* course.get(key, default): the default only when the dict lacks the key
CourseGet(course, key, default) ==
    IF key \in DOMAIN course THEN course[key] ELSE default

\* " ".join(...) raises TypeError when skills is None (not iterable) or
\* holds a None, or when description or name is None (not a str)
infer_domain(course) ==
    LET skills == CourseGet(course, "skills", <<>>)
        description == CourseGet(course, "description", "")
        name == CourseGet(course, "name", "")
    IN  IF \/ skills = NoneList
           \/ \E i \in 1..Len(skills) : skills[i] = None
           \/ description = None
           \/ name = None
        THEN Raise
        ELSE LET text_to_analyze ==
                     lower(Join(<<Join(skills, " "), description, name>>, " "))
                 domain_scores ==
                     [d \in 1..Len(DOMAIN_KEYWORDS) |->
                         KeywordScore(DOMAIN_KEYWORDS[d].keywords,
                                      text_to_analyze)]
             IN  FirstMaxDomain(domain_scores)

(***************************************************************************)
(* Bounds and the inputs the specifications draw from                      *)
(***************************************************************************)
MaxCore == 3
MaxResults == 3
MaxLimit == 2

CourseA == [id |-> "A", name |-> "Python Programming",
            description |-> "Write scripts",
            skills |-> <<"Python", "Excel", "Git", "Docker",
                         "Bash", "Rust", "Vim", "Go">>,
            difficulty |-> "Beginner", similarity_score |-> 95]
CourseJ == [id |-> "J", name |-> "Coding Bootcamp",
            description |-> "Everything",
            skills |-> <<"Excel", "Git", "Docker", "Kotlin", "Swift", "Perl",
                         "Ruby", "Scala", "Lua", "Zig", "Nim", "Elm",
                         "Fortran", "PHP", "Lisp", "Julia", "Ada", "COBOL">>,
            difficulty |-> "Intermediate", similarity_score |-> 90]
CourseX == [id |-> "X", name |-> "Marketing Basics",
            description |-> "Reach customers",
            skills |-> <<"excel", "GIT", "Docker", "Marketing", "Sales">>,
            difficulty |-> "Conversant", similarity_score |-> 80]
CourseH == [id |-> "H", name |-> "Finance Tools",
            description |-> "Spreadsheets",
            skills |-> <<"Excel", "Git", "Docker", "Bash", "Finance">>,
            difficulty |-> "Advanced", similarity_score |-> 85]
CourseR == [id |-> "R", name |-> "Bread Baking",
            description |-> "Sourdough",
            skills |-> <<"Baking">>,
            difficulty |-> "Beginner", similarity_score |-> 70]
CourseN == [id |-> "N", name |-> "Untitled",
            description |-> None,
            skills |-> <<"Excel">>,
            difficulty |-> "Beginner", similarity_score |-> 75]

\* a course whose skills differ in letter case only: parse_skills of the
\* loader removes exact duplicates, so "Git" and "git" are two Skill nodes
CourseG == [id |-> "G", name |-> "Design Studio",
            description |-> "Layouts",
            skills |-> <<"Git", "git", "Design">>,
            difficulty |-> "Beginner", similarity_score |-> 75]

CorePool == {CourseA, CourseJ, CourseX}
CoursePool == {CourseA, CourseJ, CourseX, CourseH, CourseR, CourseN}
SharedPool == {CourseG, CourseH, CourseR, CourseN}

\* rows of the vector store from five domains, most of them Advanced, so
\* that a search can return more cross-domain candidates than limit
Row(id, name, difficulty, score) ==
    [id |-> id, name |-> name, description |-> "", skills |-> <<>>,
     difficulty |-> difficulty, similarity_score |-> score]
WideRows ==
    {Row("A1", "Python Programming", "Beginner", 95),
     Row("B1", "Business Strategy", "Intermediate", 90),
     Row("F1", "Finance Basics", "Advanced", 85),
     Row("M1", "Mechanical Systems", "Advanced", 80),
     Row("P1", "Music Theory", "Advanced", 78),
     Row("S1", "Statistics Primer", "Advanced", 72),
     Row("L1", "Linux Admin", "Advanced", 65)}

SeqsUpTo(S, n) == UNION {[1..k -> S] : k \in 0..n}
Injective(seq) == \A i, j \in 1..Len(seq) : seq[i] = seq[j] => i = j

\* default thresholds of get_cross_domain_courses, and two other settings
DefaultThresholds ==
    [min_similarity |-> Hundredths(70), min_skill_overlap |-> Rat(15, 100)]
ThresholdChoices ==
    {DefaultThresholds,
     [min_similarity |-> Hundredths(90), min_skill_overlap |-> Rat(15, 100)],
     [min_similarity |-> Hundredths(90), min_skill_overlap |-> Rat(1, 3)]}


\* infer_domain and str.lower() are pure, so their values on the courses and
\* skills of the model are computed once and looked up afterwards
DomainCache ==
    [c \in CoursePool \cup SharedPool \cup WideRows |-> infer_domain(c)]
DomainOf(course) ==
    IF course \in DOMAIN DomainCache THEN DomainCache[course]
    ELSE infer_domain(course)

PoolSkills == UNION {Range(c.skills) : c \in CoursePool \cup SharedPool}
LowerCache == [s \in PoolSkills \cup {lower(t) : t \in PoolSkills} |-> lower(s)]
Lower(s) == IF s \in DOMAIN LowerCache THEN LowerCache[s] ELSE lower(s)

LowerAll(skills) == [i \in 1..Len(skills) |-> Lower(skills[i])]

\* variant: the skill names are compared as written
calculate_skill_overlap_CaseSensitive(skills1, skills2) ==
    IF Len(skills1) = 0 \/ Len(skills2) = 0 THEN Rat(0, 1)
    ELSE LET set1 == Range(skills1)
             set2 == Range(skills2)
             intersection == Cardinality(set1 \cap set2)
             union == Cardinality(set1 \cup set2)
         IN  IF union = 0 THEN Rat(0, 1) ELSE Rat(intersection, union)

\* variant: the shared skills as a proportion of the first list's skills
calculate_skill_overlap_OfFirst(skills1, skills2) ==
    IF Len(skills1) = 0 \/ Len(skills2) = 0 THEN Rat(0, 1)
    ELSE LET set1 == Range(LowerAll(skills1))
             set2 == Range(LowerAll(skills2))
             intersection == Cardinality(set1 \cap set2)
         IN  Rat(intersection, Cardinality(set1))

\* Jaccard index of the lower-cased skill sets; 0.0 when a list is empty
calculate_skill_overlap(skills1, skills2) ==
    IF Len(skills1) = 0 \/ Len(skills2) = 0 THEN Rat(0, 1)
    ELSE LET set1 == Range(LowerAll(skills1))
             set2 == Range(LowerAll(skills2))
             intersection == Cardinality(set1 \cap set2)
             union == Cardinality(set1 \cup set2)
         IN  IF union = 0 THEN Rat(0, 1) ELSE Rat(intersection, union)

(***************************************************************************)
(* CrossDomainService._generate_explanation                                *)
(***************************************************************************)
\* variant: inclusive comparisons against 0.3 and 0.8
_generate_explanation_Inclusive(course_domain, primary_domain, similarity, skill_overlap, course_skills, core_skills) ==
    LET course_skills_lower == LowerAll(course_skills)
        shared_skills == SelectSeq2(course_skills_lower, core_skills)
    IN  IF RatGe(skill_overlap, Rat(3, 10)) /\ Len(shared_skills) > 0
        THEN "Applies " \o primary_domain \o " concepts in " \o course_domain
                 \o " context (shared: " \o Join(Take(shared_skills, 3), ", ")
                 \o ")"
        ELSE IF RatGe(similarity, Rat(8, 10))
        THEN "Highly relevant " \o course_domain
                 \o " perspective on similar topics"
        ELSE IF Len(shared_skills) > 0
        THEN "Complementary " \o course_domain \o " skills ("
                 \o Join(Take(shared_skills, 2), ", ") \o ")"
        ELSE "Related " \o course_domain
                 \o " concepts with transferable knowledge"

_generate_explanation(course_domain, primary_domain, similarity, skill_overlap, course_skills, core_skills) ==
    LET course_skills_lower == LowerAll(course_skills)
        shared_skills == SelectSeq2(course_skills_lower, core_skills)
    IN  IF RatGt(skill_overlap, Rat(3, 10)) /\ Len(shared_skills) > 0
        THEN "Applies " \o primary_domain \o " concepts in " \o course_domain
                 \o " context (shared: " \o Join(Take(shared_skills, 3), ", ")
                 \o ")"
        ELSE IF RatGt(similarity, Rat(8, 10))
        THEN "Highly relevant " \o course_domain
                 \o " perspective on similar topics"
        ELSE IF Len(shared_skills) > 0
        THEN "Complementary " \o course_domain \o " skills ("
                 \o Join(Take(shared_skills, 2), ", ") \o ")"
        ELSE "Related " \o course_domain
                 \o " concepts with transferable knowledge"

(***************************************************************************)
(* CrossDomainService.get_cross_domain_courses                             *)
(***************************************************************************)
\* core_domains.count(d)
CountOf(domains, d) == Cardinality({i \in 1..Len(domains) : domains[i] = d})

\* variant: any domain of a core course, whatever its count
PrimaryDomainChoices_AnyDomain(core_domains) ==
    IF Len(core_domains) = 0 THEN {"Other"} ELSE Range(core_domains)

\* max(set(core_domains), key=core_domains.count) returns the first element,
\* in the iteration order of the set, with the highest count.  The iteration
\* order of a set of str depends on the per-process hash seed, so the value
\* is any one of the most frequent domains.
PrimaryDomainChoices(core_domains) ==
    IF Len(core_domains) = 0 THEN {"Other"}
    ELSE {d \in Range(core_domains) :
             \A e \in Range(core_domains) :
                 CountOf(core_domains, e) <= CountOf(core_domains, d)}

\* core_skills.update(s.lower() for s in course.get('skills', [])), over all
\* core courses
CoreSkills(core_courses) ==
    UNION {Range(LowerAll(core_courses[i].skills)) : i \in 1..Len(core_courses)}

\* list(core_skills): some enumeration of the set; the overlap only uses it
\* as a set
RECURSIVE SetToSeq(_)
SetToSeq(S) ==
    IF S = {} THEN <<>>
    ELSE LET x == CHOOSE x \in S : TRUE IN <<x>> \o SetToSeq(S \ {x})

\* variant: the id check of line 154 is dropped
InCore_NoIdCheck(course, core_courses) == FALSE

InCore(course, core_courses) ==
    \E i \in 1..Len(core_courses) : core_courses[i].id = course.id

\* variant: strict comparisons, as the docstring words them
meets_criteria_Strict(similarity, skill_overlap, min_similarity, min_skill_overlap) ==
    \/ RatGt(similarity, min_similarity)
    \/ RatGt(skill_overlap, min_skill_overlap)

meets_criteria(similarity, skill_overlap, min_similarity, min_skill_overlap) ==
    \/ RatGe(similarity, min_similarity)
    \/ RatGe(skill_overlap, min_skill_overlap)

\* The body of the loop over all_search_results, from position i on; acc is
\* cross_domain_candidates so far.  The result is Raise when a step raises.
RECURSIVE FilterCandidates(_, _, _, _, _, _, _, _)
FilterCandidates(all_search_results, i, acc, core_courses, primary_domain, core_skills, min_similarity, min_skill_overlap) ==
    IF i > Len(all_search_results) THEN [raised |-> FALSE, list |-> acc]
    ELSE
      LET course == all_search_results[i]
          rest(acc2) == FilterCandidates(all_search_results, i + 1, acc2,
                            core_courses, primary_domain, core_skills,
                            min_similarity, min_skill_overlap)
      IN
      IF InCore(course, core_courses) THEN rest(acc)
      ELSE
        LET course_domain == DomainOf(course) IN
        IF course_domain = Raise THEN [raised |-> TRUE, list |-> <<>>]
        ELSE IF course_domain = primary_domain THEN rest(acc)
        ELSE
          LET similarity == Hundredths(course.similarity_score)
              course_skills == course.skills
              skill_overlap ==
                  calculate_skill_overlap(SetToSeq(core_skills), course_skills)
          IN
          IF meets_criteria(similarity, skill_overlap,
                            min_similarity, min_skill_overlap)
          THEN rest(Append(acc,
                   [course |-> course.name,
                    id |-> course.id,
                    domain |-> course_domain,
                    difficulty |-> course.difficulty,
                    similarity_score |-> similarity,
                    skill_overlap |-> skill_overlap,
                    reason |-> _generate_explanation(course_domain,
                                   primary_domain, similarity, skill_overlap,
                                   course_skills, core_skills)]))
          ELSE rest(acc)

CombinedScore(x) == RatAdd(x.similarity_score, x.skill_overlap)

\* variant: the list is left in loop order
SortByScoreDesc_NoSort(list) == list

\* list.sort(key=..., reverse=True): stable, descending by key
RECURSIVE SortByScoreDesc(_)
SortByScoreDesc(list) ==
    IF Len(list) = 0 THEN <<>>
    ELSE LET sorted == SortByScoreDesc(SubSeq(list, 1, Len(list) - 1))
             x == list[Len(list)]
             \* x goes after every element whose key is >= its own
             k == Cardinality({j \in 1..Len(sorted) :
                      RatGe(CombinedScore(sorted[j]), CombinedScore(x))})
         IN  SubSeq(sorted, 1, k) \o <<x>> \o SubSeq(sorted, k + 1, Len(sorted))

\* The whole call.  primary_domain is the value max(...) produced, one of
\* PrimaryDomainChoices; it is "" when the call ends before computing it.
get_cross_domain_courses(core_courses, all_search_results, limit, min_similarity, min_skill_overlap, primary_domain) ==
    IF Len(core_courses) = 0 \/ Len(all_search_results) = 0
    THEN [raised |-> FALSE, early |-> TRUE, candidates |-> <<>>, result |-> <<>>]
    ELSE IF \E i \in 1..Len(core_courses) : DomainOf(core_courses[i]) = Raise
    THEN [raised |-> TRUE, early |-> FALSE, candidates |-> <<>>, result |-> <<>>]
    ELSE
      LET core_skills == CoreSkills(core_courses)
          filtered == FilterCandidates(all_search_results, 1, <<>>,
                          core_courses, primary_domain, core_skills,
                          min_similarity, min_skill_overlap)
      IN  IF filtered.raised
          THEN [raised |-> TRUE, early |-> FALSE,
                candidates |-> <<>>, result |-> <<>>]
          ELSE [raised |-> FALSE, early |-> FALSE,
                candidates |-> filtered.list,
                result |-> Take(SortByScoreDesc(filtered.list), limit)]

CoreDomains(core_courses) ==
    [i \in 1..Len(core_courses) |-> DomainOf(core_courses[i])]


(***************************************************************************)
(* LearnerProfileService                                                   *)
(***************************************************************************)
\* PROFILE_TYPES and OUTCOME_TYPES, keyed 0..3
PROFILE_TYPES == <<"Fast Learner", "Balanced", "Struggling", "Disengaged">>
OUTCOME_TYPES == <<"Pass", "Fail", "Distinction", "Withdrawn">>

\* dict.get(key, 'Unknown') on one of the two tables
TypeGet(table, key) ==
    IF key \in 0..(Len(table) - 1) THEN table[key + 1] ELSE "Unknown"

\* variant: the upper boundaries are inclusive
_calculate_risk_level_Inclusive(outcome_name, conf) ==
    IF outcome_name \in {"Fail", "Withdrawn"}
    THEN IF RatGe(conf, Rat(75, 100)) THEN "Very High"
         ELSE IF RatGe(conf, Rat(5, 10)) THEN "High"
         ELSE "Moderate"
    ELSE IF outcome_name = "Pass"
    THEN IF RatGt(Rat(4, 10), conf) \/ conf = Rat(40, 100) THEN "Moderate"
         ELSE "Low"
    ELSE "Very Low"

_calculate_risk_level(outcome_name, conf) ==
    IF outcome_name \in {"Fail", "Withdrawn"}
    THEN IF RatGt(conf, Rat(75, 100)) THEN "Very High"
         ELSE IF RatGt(conf, Rat(5, 10)) THEN "High"
         ELSE "Moderate"
    ELSE IF outcome_name = "Pass"
    THEN IF RatGt(Rat(4, 10), conf) THEN "Moderate"
         ELSE "Low"
    ELSE "Very Low"

Recommendation(t, m, p) == [type |-> t, message |-> m, priority |-> p]

\* lines 353-381
ProfileRecommendations(profile_name) ==
    IF profile_name = "Fast Learner"
    THEN <<Recommendation("course_difficulty",
               "Consider enrolling in Advanced level courses to challenge yourself",
               "low")>>
    ELSE IF profile_name = "Struggling"
    THEN <<Recommendation("support",
               "Beginner courses recommended with additional tutorial support",
               "high"),
           Recommendation("engagement",
               "Set daily learning goals to improve engagement",
               "high")>>
    ELSE IF profile_name = "Disengaged"
    THEN <<Recommendation("intervention",
               "Immediate intervention needed - contact student advisor",
               "critical"),
           Recommendation("engagement",
               "Interactive and project-based courses may improve engagement",
               "high")>>
    ELSE <<>>

RiskEntries ==
    <<Recommendation("early_warning",
          "Student is at high risk - schedule check-in meeting",
          "critical"),
      Recommendation("course_load",
          "Consider reducing course load or providing additional support",
          "high")>>

\* variant: a Moderate risk raises the warning too
RiskRecommendations_FromModerate(risk) ==
    IF risk \in {"Moderate", "High", "Very High"} THEN RiskEntries ELSE <<>>

\* lines 383-394
RiskRecommendations(risk) ==
    IF risk \in {"High", "Very High"} THEN RiskEntries ELSE <<>>

\* lines 396-402
OutcomeRecommendations(outcome_name) ==
    IF outcome_name = "Withdrawn"
    THEN <<Recommendation("retention",
               "High withdrawal risk - engage with retention team",
               "critical")>>
    ELSE <<>>

\* variant: the risk block runs before the profile block
_generate_recommendations_RiskFirst(profile_name, outcome_name, risk) ==
    RiskRecommendations(risk)
        \o ProfileRecommendations(profile_name)
        \o OutcomeRecommendations(outcome_name)

_generate_recommendations(profile_name, outcome_name, risk) ==
    ProfileRecommendations(profile_name)
        \o RiskRecommendations(risk)
        \o OutcomeRecommendations(outcome_name)

\* probabilities[i] of a numpy array: valid for -len <= i < len
PyIndexValid(array, i) == -Len(array) <= i /\ i < Len(array)
PyIndex(array, i) == IF i >= 0 THEN array[i + 1] ELSE array[Len(array) + i + 1]

\* A classifier is a black box; what it does on one student's features is
\* part of the student record: prediction.raises when predict or
\* predict_proba raises, else prediction.id = predict(...)[0] and
\* prediction.probabilities = predict_proba(...)[0], in hundredths.
\*
\* A result dict is a record with a field keys naming the keys the dict has;
\* a key the dict lacks holds a filler in the record.
ErrorKeys(label) == {label, "confidence", "error"}
ProfileKeys ==
    {"profile", "profile_id", "confidence", "all_probabilities", "features_used"}
OutcomeKeys ==
    {"outcome", "outcome_id", "confidence", "risk_level",
     "all_probabilities", "is_at_risk"}

\* variant: the failure result has no error key
ProfileError_NoErrorKey(message) ==
    [keys |-> {"profile", "confidence"}, profile |-> "Unknown",
     profile_id |-> 0, confidence |-> Hundredths(0), error |-> message]

ProfileError(message) ==
    [keys |-> ErrorKeys("profile"), profile |-> "Unknown", profile_id |-> 0,
     confidence |-> Hundredths(0), error |-> message]
OutcomeError(message) ==
    [keys |-> ErrorKeys("outcome"), outcome |-> "Unknown", outcome_id |-> 0,
     confidence |-> Hundredths(0), risk_level |-> None, is_at_risk |-> FALSE,
     error |-> message]

\* the try block raises: predict/predict_proba raise, probabilities[id] is
\* out of range, or TYPES[i] has no key i for some position of probabilities
PredictionRaises(predicted, table) ==
    \/ predicted.raises
    \/ ~PyIndexValid(predicted.probabilities, predicted.id)
    \/ Len(predicted.probabilities) > Len(table)

classify_profile(classifier, predicted) ==
    IF classifier = None THEN ProfileError("Profile classifier not loaded")
    ELSE IF PredictionRaises(predicted, PROFILE_TYPES)
    THEN ProfileError("str(e)")
    ELSE [keys |-> ProfileKeys,
          profile |-> TypeGet(PROFILE_TYPES, predicted.id),
          profile_id |-> predicted.id,
          confidence |->
              Hundredths(PyIndex(predicted.probabilities, predicted.id)),
          error |-> None]

\* variant: only the highest level counts as at risk
IsAtRisk_VeryHighOnly(risk) == risk = "Very High"

\* risk_level in ['High', 'Very High']
IsAtRisk(risk) == risk \in {"High", "Very High"}

predict_outcome(predictor, predicted) ==
    IF predictor = None THEN OutcomeError("Outcome predictor not loaded")
    ELSE IF PredictionRaises(predicted, OUTCOME_TYPES)
    THEN OutcomeError("str(e)")
    ELSE LET outcome_name == TypeGet(OUTCOME_TYPES, predicted.id)
             conf == Hundredths(PyIndex(predicted.probabilities,
                                        predicted.id))
             risk == _calculate_risk_level(outcome_name, conf)
         IN  [keys |-> OutcomeKeys,
              outcome |-> outcome_name,
              outcome_id |-> predicted.id,
              confidence |-> conf,
              risk_level |-> risk,
              is_at_risk |-> IsAtRisk(risk),
              error |-> None]

\* embedding_pipeline.transform(features_df)[0].tolist(): the embedding of a
\* student, a non-zero vector of two components
StudentEmbedding(student) ==
    IF student.student_id = "s1" THEN <<1, 0>>
    ELSE IF student.student_id = "s2" THEN <<1, 1>>
    ELSE IF student.student_id = "s4" THEN <<-1, 1>>
    ELSE <<0, 1>>

\* variant: no try block around transform
get_student_embedding_NoTry(pipeline, student) ==
    IF pipeline = None THEN None
    ELSE IF student.transform_raises THEN Raise
    ELSE StudentEmbedding(student)

\* the embedding is a list of floats, or None
get_student_embedding(pipeline, student) ==
    IF pipeline = None THEN None
    ELSE IF student.transform_raises THEN None
    ELSE StudentEmbedding(student)

\* dict.get(key): None when the dict lacks the key
ResultGet(result, key) ==
    IF key \in result.keys THEN result[key] ELSE None

analyze_student(student, classifier, predictor, pipeline) ==
    LET profile_result == classify_profile(classifier, student.profile_prediction)
        outcome_result == predict_outcome(predictor, student.outcome_prediction)
        embedding == get_student_embedding(pipeline, student)
    IN  [student_id |-> student.student_id,
         profile |-> profile_result,
         outcome |-> outcome_result,
         embedding |-> embedding,
         recommendations |->
             _generate_recommendations(ResultGet(profile_result, "profile"),
                                       ResultGet(outcome_result, "outcome"),
                                       ResultGet(outcome_result, "risk_level"))]

\* np.dot(a, b) / (norm(a) * norm(b)) of two non-zero vectors, kept exact as
\* the signed square of the cosine, which orders pairs as the cosine does
CosineSimilarity(a, b) ==
    LET dot == a[1] * b[1] + a[2] * b[2]
        norms == (a[1] * a[1] + a[2] * a[2]) * (b[1] * b[1] + b[2] * b[2])
    IN  Rat((IF dot < 0 THEN -1 ELSE 1) * dot * dot, norms)

\* similarities.sort(key=lambda x: x['similarity'], reverse=True): stable
RECURSIVE SortBySimilarityDesc(_)
SortBySimilarityDesc(list) ==
    IF Len(list) = 0 THEN <<>>
    ELSE LET sorted == SortBySimilarityDesc(SubSeq(list, 1, Len(list) - 1))
             x == list[Len(list)]
             k == Cardinality({j \in 1..Len(sorted) :
                      RatGe(sorted[j].similarity, x.similarity)})
         IN  SubSeq(sorted, 1, k) \o <<x>> \o SubSeq(sorted, k + 1, Len(sorted))

\* lines 432-434: the students of all_students with another student_id
OtherStudents(student, all) ==
    SelectSeq(all, LAMBDA other : other.student_id # student.student_id)

\* np.array(None) enters np.dot and np.linalg.norm, which raise TypeError;
\* the except of line 452 then returns [] for the whole call
get_similar_students(pipeline, student, all, k) ==
    IF pipeline = None THEN <<>>
    ELSE LET target_embedding == get_student_embedding(pipeline, student)
             others == OtherStudents(student, all)
         IN  IF Len(others) = 0 THEN <<>>
             ELSE IF target_embedding = None
                     \/ \E i \in 1..Len(others) :
                            get_student_embedding(pipeline, others[i]) = None
             THEN <<>>
             ELSE Take(SortBySimilarityDesc(
                      [i \in 1..Len(others) |->
                          [student |-> others[i],
                           similarity |-> CosineSimilarity(target_embedding,
                               get_student_embedding(pipeline, others[i]))]]), k)

\* pydantic validation of StudentAnalysis(**analysis): ProfileClassification
\* and OutcomePrediction require the keys below and a confidence in [0, 1]
InUnitInterval(r) == RatGe(r, Rat(0, 1)) /\ RatGe(Rat(1, 1), r)
ValidProfileClassification(r) ==
    /\ {"profile", "profile_id", "confidence", "all_probabilities"} \subseteq r.keys
    /\ InUnitInterval(r.confidence)
ValidOutcomePrediction(r) ==
    /\ {"outcome", "outcome_id", "confidence", "risk_level",
        "is_at_risk", "all_probabilities"} \subseteq r.keys
    /\ InUnitInterval(r.confidence)
ValidStudentAnalysis(analysis) ==
    /\ ValidProfileClassification(analysis.profile)
    /\ ValidOutcomePrediction(analysis.outcome)


(***************************************************************************)
(* LearningPathService                                                     *)
(***************************************************************************)
\* variant: an unrecognized difficulty counts as order 1
DifficultyOrder_DefaultBeginner(difficulty) ==
    IF difficulty = "Beginner" THEN 1
    ELSE IF difficulty = "Intermediate" THEN 2
    ELSE IF difficulty = "Advanced" THEN 3
    ELSE IF difficulty = "Conversant" THEN 2
    ELSE 1

\* DIFFICULTY_ORDER.get(difficulty, 2)
DifficultyOrder(difficulty) ==
    IF difficulty = "Beginner" THEN 1
    ELSE IF difficulty = "Intermediate" THEN 2
    ELSE IF difficulty = "Advanced" THEN 3
    ELSE IF difficulty = "Conversant" THEN 2
    ELSE 2
\* DIFFICULTY_LABELS.get(order, "intermediate")
DifficultyLabel(order) ==
    IF order = 1 THEN "beginner"
    ELSE IF order = 2 THEN "intermediate"
    ELSE IF order = 3 THEN "advanced"
    ELSE "intermediate"

\* course.get('difficulty', 'Intermediate'): the default only when the dict
\* has no such key; a key holding null gives None
CourseDifficulty(course) ==
    IF "difficulty" \in DOMAIN course THEN course.difficulty ELSE "Intermediate"

CourseLabel(course) == DifficultyLabel(DifficultyOrder(CourseDifficulty(course)))

\* variant: a course equal to one already in its group is not added again
RECURSIVE GroupByLabel_NoRepeats(_, _)
GroupByLabel_NoRepeats(search_results, label) ==
    IF Len(search_results) = 0 THEN <<>>
    ELSE LET n == Len(search_results)
             front == GroupByLabel_NoRepeats(SubSeq(search_results, 1, n - 1), label)
             last == search_results[n]
         IN  IF CourseLabel(last) = label
                /\ \A k \in 1..Len(front) : front[k] # last
             THEN Append(front, last) ELSE front

\* variant: each course is put at the front of its group
RECURSIVE GroupByLabel_Prepend(_, _)
GroupByLabel_Prepend(search_results, label) ==
    IF Len(search_results) = 0 THEN <<>>
    ELSE GroupByLabel_Prepend(Tail(search_results), label)
             \o (IF CourseLabel(search_results[1]) = label
                 THEN <<search_results[1]>> ELSE <<>>)

\* the loop of lines 50-58, seen from one group
RECURSIVE GroupByLabel(_, _)
GroupByLabel(search_results, label) ==
    IF Len(search_results) = 0 THEN <<>>
    ELSE (IF CourseLabel(search_results[1]) = label
          THEN <<search_results[1]>> ELSE <<>>)
             \o GroupByLabel(Tail(search_results), label)

build_learning_path(search_results) ==
    [beginner |-> GroupByLabel(search_results, "beginner"),
     intermediate |-> GroupByLabel(search_results, "intermediate"),
     advanced |-> GroupByLabel(search_results, "advanced")]

EmptyPath == [beginner |-> <<>>, intermediate |-> <<>>, advanced |-> <<>>]

get_learning_path_summary(path) ==
    [total_courses |-> Len(path.beginner) + Len(path.intermediate)
                           + Len(path.advanced),
     beginner_count |-> Len(path.beginner),
     intermediate_count |-> Len(path.intermediate),
     advanced_count |-> Len(path.advanced)]

(***************************************************************************)
(* AISearchService.semantic_search and the response models of /ai-search   *)
(***************************************************************************)
\* [s for s in result['skills'] if s]
RECURSIVE TruthySkills(_)
TruthySkills(skills) ==
    IF Len(skills) = 0 THEN <<>>
    ELSE (IF skills[1] \in {"", None} THEN <<>> ELSE <<skills[1]>>)
             \o TruthySkills(Tail(skills))

\* iterating result['skills'] raises when it is None
SemanticSearchRaises(rows) ==
    \E i \in 1..Len(rows) : rows[i].skills = NoneList

semantic_search(rows) ==
    [i \in 1..Len(rows) |->
        [rows[i] EXCEPT !.skills = TruthySkills(rows[i].skills)]]

\* AISearchResult: id, name and description are required str fields
ValidAISearchResult(course) ==
    /\ course.id # None
    /\ course.name # None
    /\ course.description # None

\* CrossDomainCourse: course, id, domain, difficulty and reason are required
\* str fields
ValidCrossDomainCourse(r) ==
    /\ r.course # None
    /\ r.id # None
    /\ r.difficulty # None

ValidLearningPathResponse(path, cross) ==
    /\ \A i \in 1..Len(path.beginner) : ValidAISearchResult(path.beginner[i])
    /\ \A i \in 1..Len(path.intermediate) :
           ValidAISearchResult(path.intermediate[i])
    /\ \A i \in 1..Len(path.advanced) : ValidAISearchResult(path.advanced[i])
    /\ \A i \in 1..Len(cross) : ValidCrossDomainCourse(cross[i])

(***************************************************************************)
(* More inputs                                                             *)
(***************************************************************************)
MaxStudents == 3

\* a row of the vector store whose skills property is null
CourseS == [id |-> "S", name |-> "Statistics Primer",
            description |-> "Numbers",
            skills |-> NoneList,
            difficulty |-> "Intermediate", similarity_score |-> 60]
\* a row with an empty skill name and no difficulty
CourseE == [id |-> "E", name |-> "Sales Pitch",
            description |-> "Persuasion",
            skills |-> <<"Excel", "", "Sales">>,
            difficulty |-> None, similarity_score |-> 88]
StoreRows == {CourseA, CourseX, CourseH, CourseR, CourseN, CourseS, CourseE}

Prediction(i, probs) == [raises |-> FALSE, id |-> i, probabilities |-> probs]
PredictionFails == [raises |-> TRUE, id |-> 0, probabilities |-> <<>>]

Student(sid, pp, op, tr) ==
    [student_id |-> sid, profile_prediction |-> pp,
     outcome_prediction |-> op, transform_raises |-> tr]
StudentPool ==
    {Student("s1", Prediction(1, <<20, 60, 10, 10>>),
                   Prediction(1, <<30, 60, 5, 5>>), FALSE),
     Student("s2", PredictionFails,
                   Prediction(0, <<90, 5, 5, 0>>), FALSE),
     Student("s3", Prediction(3, <<0, 10, 10, 80>>),
                   Prediction(3, <<10, 5, 5, 80>>), TRUE),
     Student("s4", Prediction(0, <<70, 10, 10, 10>>),
                   PredictionFails, FALSE)}

ProfileLabels == Range(PROFILE_TYPES) \cup {"Unknown"}
OutcomeLabels == Range(OUTCOME_TYPES) \cup {"Unknown"}
RiskLevels == {"Very Low", "Low", "Moderate", "High", "Very High"}

(***************************************************************************)
(* RecommendationService: the course graph and the two Cypher queries of   *)
(* get_learning_path                                                       *)
(***************************************************************************)
MaxCourses == 2

\* (:Course)-[:HAS_DIFFICULTY]->(:DifficultyLevel {level, order}); a course
\* without the relationship has NoDifficulty
Difficulty(level, order) == [level |-> level, order |-> order]
NoDifficulty == [level |-> None, order |-> 0]

\* a Course node with the names of the skills it TEACHES, its rating in
\* tenths, its difficulty and the university it is OFFERED_BY, if any
GraphCourse(id, skills, rating, difficulty, university) ==
    [id |-> id, skills |-> skills, rating |-> rating,
     difficulty |-> difficulty, university |-> university]
GraphPool ==
    {GraphCourse("g1", {"Python", "SQL"}, 45, Difficulty("Beginner", 1), "U"),
     GraphCourse("g2", {"Python"}, 48, Difficulty("Intermediate", 2), "U"),
     GraphCourse("g3", {"Python", "SQL", "R"}, 45, Difficulty("Beginner", 1), "U"),
     GraphCourse("g4", {"R"}, 30, Difficulty("Advanced", 3), None),
     GraphCourse("g5", {"Excel", "SQL"}, 50, NoDifficulty, "U")}
\* the SIMILAR_TO relationships of the graph, as unordered pairs of ids
SimilarToChoices == {{}, {{"g2", "g4"}}, {{"g4", "g5"}, {"g5", "g1"}}}

\* the sequences that list the elements of S once each and never put b
\* ahead of a for a pair <<a, b>> of before: ORDER BY leaves rows with equal
\* keys in any order
Orderings(S, before) ==
    {seq \in [1..Cardinality(S) -> S] :
        /\ \A i, j \in 1..Cardinality(S) : seq[i] = seq[j] => i = j
        /\ \A i, j \in 1..Cardinality(S) :
               i < j => <<seq[j], seq[i]>> \notin before}

\* ORDER BY d.order ASC, c.rating DESC: a sorts strictly before b
SkillListingBefore(a, b) ==
    \/ a.difficulty.order < b.difficulty.order
    \/ a.difficulty.order = b.difficulty.order /\ a.rating > b.rating

\* the query of lines 169-178: courses that TEACH target_skill and have a
\* difficulty, ordered, at most max_courses of them
SkillListings(courses, target_skill, max_courses) ==
    LET matched == {c \in courses : /\ target_skill \in c.skills
                                     /\ c.difficulty # NoDifficulty}
        before == {pair \in matched \X matched :
                      SkillListingBefore(pair[1], pair[2])}
    IN  {Take(seq, max_courses) : seq \in Orderings(matched, before)}

\* the relationships a path may follow: TEACHES between a course and a
\* skill, SIMILAR_TO between two courses, in either direction
GraphEdges(courses, similar_to) ==
    UNION {{{c.id, sk} : sk \in c.skills} : c \in courses}
        \cup {e \in similar_to : e \subseteq {c.id : c \in courses}}
GraphNodes(courses) ==
    {c.id : c \in courses} \cup UNION {c.skills : c \in courses}
EdgesOf(trail) == {{trail[i], trail[i + 1]} : i \in 1..(Len(trail) - 1)}

\* the node sequences of hops relationships from start that use no
\* relationship twice
RECURSIVE Trails(_, _, _, _)
Trails(courses, similar_to, start, hops) ==
    IF hops = 0 THEN {<<start>>}
    ELSE UNION {{Append(t, n) :
                    n \in {n \in GraphNodes(courses) :
                              /\ {t[Len(t)], n} \in GraphEdges(courses, similar_to)
                              /\ {t[Len(t)], n} \notin EdgesOf(t)}} :
                t \in Trails(courses, similar_to, start, hops - 1)}

\* [:TEACHES|SIMILAR_TO*1..6]
MaxHops == 6

\* the trails of the pattern of line 151 with hops relationships before c:
\* they end in a course c that TEACHES target_skill by a relationship the
\* trail has not used
PathsOfLength(courses, similar_to, start, target_skill, hops) ==
    {t \in Trails(courses, similar_to, start, hops) :
        /\ \E c \in courses : c.id = t[Len(t)] /\ target_skill \in c.skills
        /\ {t[Len(t)], target_skill} \notin EdgesOf(t)}

\* shortestPath: the paths with the fewest relationships, none when the
\* start course or the skill is not in the graph or nothing connects them
ShortestPaths(courses, similar_to, start, target_skill) ==
    LET lengths == {h \in 1..MaxHops :
                       PathsOfLength(courses, similar_to, start,
                                     target_skill, h) # {}}
    IN  IF start \notin {c.id : c \in courses} \/ lengths = {} THEN {}
        ELSE PathsOfLength(courses, similar_to, start, target_skill,
                           CHOOSE h \in lengths : \A g \in lengths : h <= g)

\* UNWIND nodes(path), keep the Course nodes that are OFFERED_BY a
\* university, DISTINCT
RECURSIVE PathCourses(_, _, _)
PathCourses(courses, trail, seen) ==
    IF Len(trail) = 0 THEN <<>>
    ELSE LET here == {c \in courses : /\ c.id = trail[1]
                                       /\ c.university # None
                                       /\ c.id \notin seen}
         IN  SetToSeq(here)
                 \o PathCourses(courses, Tail(trail), seen \cup {trail[1]})

\* the query of lines 148-161
PathListings(courses, similar_to, start, target_skill, max_courses) ==
    LET paths == ShortestPaths(courses, similar_to, start, target_skill)
    IN  IF paths = {} THEN {<<>>}
        ELSE {Take(PathCourses(courses, t, {}), max_courses) : t \in paths}

\* the lists get_learning_path can return; "if start_course_id:" is false
\* for None and for the empty string
get_learning_path(courses, similar_to, target_skill, start_course_id, max_courses) ==
    IF start_course_id \notin {None, ""}
    THEN PathListings(courses, similar_to, start_course_id, target_skill,
                      max_courses)
    ELSE SkillListings(courses, target_skill, max_courses)

(***************************************************************************)
(* RecommendationService.get_similar_courses                               *)
(***************************************************************************)
MaxSimilar == 3

\* COUNT(DISTINCT s): the skills a course shares with the target course
CommonSkills(similar, target_skills) ==
    Cardinality(similar.skills \cap target_skills)

\* variant: the rating is the first sort key
SimilarBefore_RatingFirst(a, b, target_skills) ==
    \/ a.rating > b.rating
    \/ /\ a.rating = b.rating
       /\ CommonSkills(a, target_skills) > CommonSkills(b, target_skills)

\* ORDER BY common_skills DESC, similar.rating DESC: a sorts strictly
\* before b
SimilarBefore(a, b, target_skills) ==
    \/ CommonSkills(a, target_skills) > CommonSkills(b, target_skills)
    \/ /\ CommonSkills(a, target_skills) = CommonSkills(b, target_skills)
       /\ a.rating > b.rating

\* the lists the query of lines 18-31 can return
get_similar_courses(courses, course_id, limit) ==
    LET target_skills == UNION {c.skills : c \in {c \in courses : c.id = course_id}}
        candidates == {similar \in courses :
                          /\ similar.id # course_id
                          /\ CommonSkills(similar, target_skills) > 0}
        before == {pair \in candidates \X candidates :
                      SimilarBefore(pair[1], pair[2], target_skills)}
    IN  {Take(seq, limit) : seq \in Orderings(candidates, before)}

(***************************************************************************)
(* LearnerProfileService.engineer_features                                 *)
(***************************************************************************)
\* the features read with student_data.get(name, 0)
NumericFeatures ==
    {"total_clicks", "active_days", "avg_clicks_per_day", "clicks_last_week",
     "avg_assessment_score", "assessments_completed", "late_submissions",
     "assessment_pass_rate", "num_prev_attempts", "studied_credits",
     "days_since_registration", "engagement_trend", "weekend_activity_ratio",
     "evening_activity_ratio", "days_inactive", "engagement_consistency",
     "content_views", "resource_downloads", "forum_posts", "quiz_attempts"}
\* the features read with a category as default
CategoryDefaults ==
    [age_band |-> "0-35", gender |-> "M", disability |-> "N",
     highest_education |-> "A Level or Equivalent", region |-> "Unknown",
     imd_band |-> "50-75%"]
FeatureDefault(name) ==
    IF name \in DOMAIN CategoryDefaults THEN CategoryDefaults[name] ELSE 0

\* student_data.get(name, default)
StudentGet(student_data, name) ==
    IF name \in DOMAIN student_data THEN student_data[name]
    ELSE FeatureDefault(name)

\* variant: a clicks_per_active_day of the input is kept
ClicksPerActiveDay_InputFirst(student_data) ==
    IF "clicks_per_active_day" \in DOMAIN student_data
    THEN student_data["clicks_per_active_day"]
    ELSE IF StudentGet(student_data, "active_days") > 0
    THEN Rat(StudentGet(student_data, "total_clicks"),
             StudentGet(student_data, "active_days"))
    ELSE Rat(0, 1)

\* lines 126-129: the quotient as an exact fraction, 0 as 0/1
ClicksPerActiveDay(student_data) ==
    IF StudentGet(student_data, "active_days") > 0
    THEN Rat(StudentGet(student_data, "total_clicks"),
             StudentGet(student_data, "active_days"))
    ELSE Rat(0, 1)

\* the one row of the DataFrame, as a record
engineer_features(student_data) ==
    [name \in NumericFeatures \cup DOMAIN CategoryDefaults
                 \cup {"clicks_per_active_day"} |->
        IF name = "clicks_per_active_day" THEN ClicksPerActiveDay(student_data)
        ELSE StudentGet(student_data, name)]

(***************************************************************************)
(* main.recommend_courses_for_profile                                      *)
(***************************************************************************)
\* difficulty_map.get(profile, 'Intermediate')
DifficultyMap(profile_name) ==
    IF profile_name = "Fast Learner" THEN "Advanced"
    ELSE IF profile_name = "Balanced" THEN "Intermediate"
    ELSE IF profile_name \in {"Struggling", "Disengaged"} THEN "Beginner"
    ELSE "Intermediate"

\* request.preferred_difficulty or difficulty_map.get(...): None and the
\* empty string are falsy
RecommendedDifficulty(preferred_difficulty, profile_name) ==
    IF preferred_difficulty \in {None, ""} THEN DifficultyMap(profile_name)
    ELSE preferred_difficulty

\* the score before min(match_score, 1.0), in hundredths
RawMatchScore(course, profile_name, is_at_risk) ==
    80
    + (IF profile_name = "Fast Learner" /\ course.difficulty = "Advanced"
       THEN 20 ELSE 0)
    + (IF profile_name = "Struggling" /\ course.difficulty = "Beginner"
       THEN 20 ELSE 0)
    + (IF profile_name = "Struggling" /\ course.rating >= 45 THEN 10 ELSE 0)
    + (IF is_at_risk /\ (Contains(course.name, "Practice")
                            \/ Contains(course.name, "Hands-on"))
       THEN 15 ELSE 0)

\* variant: the score is not capped
MatchScore_Uncapped(course, profile_name, is_at_risk) ==
    RawMatchScore(course, profile_name, is_at_risk)

\* min(match_score, 1.0)
MatchScore(course, profile_name, is_at_risk) ==
    LET match_score == RawMatchScore(course, profile_name, is_at_risk)
    IN  IF match_score < 100 THEN match_score ELSE 100

\* recommended_courses.sort(key=lambda x: x['match_score'], reverse=True)
RECURSIVE SortByMatchScoreDesc(_)
SortByMatchScoreDesc(list) ==
    IF Len(list) = 0 THEN <<>>
    ELSE LET sorted == SortByMatchScoreDesc(SubSeq(list, 1, Len(list) - 1))
             x == list[Len(list)]
             k == Cardinality({j \in 1..Len(sorted) :
                      sorted[j].match_score >= x.match_score})
         IN  SubSeq(sorted, 1, k) \o <<x>> \o SubSeq(sorted, k + 1, Len(sorted))

\* lines 396-429: the scored courses, sorted and cut to max_recommendations
RecommendedCourses(found, profile_name, is_at_risk, max_recommendations) ==
    Take(SortByMatchScoreDesc(
             [i \in 1..Len(found) |->
                 [course_id |-> found[i].id,
                  course_name |-> found[i].name,
                  university |-> IF found[i].university = None
                                 THEN "Unknown" ELSE found[i].university,
                  difficulty |-> IF found[i].difficulty = None
                                 THEN "Unknown" ELSE found[i].difficulty,
                  rating |-> found[i].rating,
                  match_score |-> MatchScore(found[i], profile_name,
                                             is_at_risk)]]),
         max_recommendations)

\* Course nodes of the catalogue: name, university, difficulty, rating in
\* tenths
CatalogCourse(id, name, university, difficulty, rating) ==
    [id |-> id, name |-> name, university |-> university,
     difficulty |-> difficulty, rating |-> rating]
Catalog ==
    {CatalogCourse("k1", "Python Practice", "U", "Advanced", 46),
     CatalogCourse("k2", "Intro", "U", "Beginner", 45),
     CatalogCourse("k3", "Hands-on SQL", "U", "Intermediate", 40),
     CatalogCourse("k4", "Algebra", None, None, 36)}

\* students for the four profiles: a Fast Learner heading for Distinction,
\* a Struggling student predicted to fail, and the students of StudentPool
RecommendStudents ==
    StudentPool
        \cup {Student("r1", Prediction(0, <<70, 10, 10, 10>>),
                            Prediction(2, <<5, 5, 85, 5>>), FALSE),
              Student("r2", Prediction(2, <<10, 10, 70, 10>>),
                            Prediction(1, <<10, 80, 5, 5>>), FALSE)}

(***************************************************************************)
(* State                                                                   *)
(***************************************************************************)
VARIABLES
    pc,                       \* position of the call or request in progress
    core_courses,             \* get_cross_domain_courses: arguments
    all_search_results,
    limit,
    min_similarity,
    min_skill_overlap,
    primary_domain,           \* get_cross_domain_courses: locals and result
    cross_domain_candidates,
    cross_domain,
    cd_raised,                \* an exception reached the except clause
    store_rows,               \* /ai-search: rows the vector index returns
    learning_path,
    search_response,
    profile,                  \* _calculate_risk_level, _generate_recommendations
    outcome,
    confidence,
    risk_level,
    recommendations,
    profile_classifier,       \* LearnerProfileService: the loaded models
    outcome_predictor,
    embedding_pipeline,
    students,                 \* /learner/batch-analyze
    batch_results,
    batch_response,
    prediction,               \* predict_outcome: what the predictor returns
    outcome_result,           \* predict_outcome: the result dict
    rebuilt_path,             \* build_learning_path of a flattened path
    course_arg,               \* infer_domain: argument course
    domain,                   \* infer_domain: value, or Raise
    skills1,                  \* calculate_skill_overlap: arguments
    skills2,
    overlap,                  \* calculate_skill_overlap(skills1, skills2)
    overlap_reversed,         \* calculate_skill_overlap(skills2, skills1)
    overlap_normalized,       \* the same on the lower-cased, duplicate-free lists
    graph_courses,            \* the graph: Course nodes and what hangs on them
    similar_to,               \* the graph: SIMILAR_TO relationships
    target_skill,             \* get_learning_path: arguments
    start_course_id,
    max_courses,
    path_courses,             \* get_learning_path: the list returned
    course_id,                \* get_similar_courses: arguments
    similar_limit,
    similar_courses,          \* get_similar_courses: the list returned
    student_data,             \* engineer_features: argument
    features,                 \* engineer_features: the row returned
    profile_result,           \* classify_profile: the result dict
    target_student,          \* analyze_student, get_similar_students: student_data
        all_students,            \* get_similar_students: all_students
        top_k,                   \* get_similar_students: top_k
        student_analysis,        \* analyze_student: the dict returned
        similar_students,        \* get_similar_students: the list returned
    primary_domain_again,    \* get_cross_domain_courses in a second run: primary_domain
        cross_domain_again,      \* get_cross_domain_courses in a second run: the list returned
    request,                 \* recommend_courses_for_profile: the request
        recommended_difficulty,  \* recommend_courses_for_profile: the difficulty searched
        courses,                 \* recommend_courses_for_profile: what search_courses returned
        recommend_response       \* recommend_courses_for_profile: the response

crossVars == <<core_courses, all_search_results, limit, min_similarity,
               min_skill_overlap, primary_domain, cross_domain_candidates,
               cross_domain, cd_raised>>
searchVars == <<store_rows, learning_path, search_response>>
riskVars == <<profile, outcome, confidence, risk_level, recommendations>>
serviceVars == <<profile_classifier, outcome_predictor, embedding_pipeline>>
batchVars == <<students, batch_results, batch_response>>
outcomeVars == <<prediction, outcome_result>>
pathVars == <<rebuilt_path>>
domainVars == <<course_arg, domain>>
overlapVars == <<skills1, skills2, overlap, overlap_reversed,
                 overlap_normalized>>
graphVars == <<graph_courses, similar_to>>
learningVars == <<target_skill, start_course_id, max_courses, path_courses>>
similarVars == <<course_id, similar_limit, similar_courses>>
featureVars == <<student_data, features>>
profileVars == <<profile_result>>
analysisVars == <<target_student, all_students, top_k, student_analysis,
                 similar_students>>
rerunVars == <<primary_domain_again, cross_domain_again>>
recommendVars == <<request, recommended_difficulty, courses, recommend_response>>
callVars == <<recommendVars, rerunVars, analysisVars, profileVars, outcomeVars, pathVars, domainVars,
              overlapVars, graphVars, learningVars, similarVars, featureVars>>
vars == <<pc, crossVars, searchVars, riskVars, serviceVars, batchVars,
          callVars>>

\* summary = get_learning_path_summary(...) with cross_domain_count added
Summary(path, cross) ==
    LET summary == get_learning_path_summary(path)
    IN  [total_courses |-> summary.total_courses,
         beginner_count |-> summary.beginner_count,
         intermediate_count |-> summary.intermediate_count,
         advanced_count |-> summary.advanced_count,
         cross_domain_count |-> Len(cross)]
NoSearchResponse ==
    [status |-> 0, learning_path |-> EmptyPath,
     cross_domain_courses |-> <<>>, summary |-> Summary(EmptyPath, <<>>)]
NoBatchResponse == [status |-> 0, results |-> <<>>, total_processed |-> 0]

CrossIdle ==
    /\ core_courses = <<>>
    /\ all_search_results = <<>>
    /\ limit = 3
    /\ min_similarity = DefaultThresholds.min_similarity
    /\ min_skill_overlap = DefaultThresholds.min_skill_overlap
    /\ primary_domain = ""
    /\ cross_domain_candidates = <<>>
    /\ cross_domain = <<>>
    /\ cd_raised = FALSE
SearchIdle ==
    /\ store_rows = <<>>
    /\ learning_path = EmptyPath
    /\ search_response = NoSearchResponse
RiskIdle ==
    /\ profile = "Unknown"
    /\ outcome = "Unknown"
    /\ confidence = 0
    /\ risk_level = None
    /\ recommendations = <<>>
\* the state _load_models leaves when the artifacts directory is empty
ServiceIdle ==
    /\ profile_classifier = None
    /\ outcome_predictor = None
    /\ embedding_pipeline = None
BatchIdle ==
    /\ students = <<>>
    /\ batch_results = <<>>
    /\ batch_response = NoBatchResponse

OutcomeIdle ==
    /\ prediction = PredictionFails
    /\ outcome_result = OutcomeError("")
PathIdle == rebuilt_path = EmptyPath
DomainIdle == course_arg = [id |-> ""] /\ domain = ""
OverlapIdle ==
    /\ skills1 = <<>>
    /\ skills2 = <<>>
    /\ overlap = Rat(0, 1)
    /\ overlap_reversed = Rat(0, 1)
    /\ overlap_normalized = Rat(0, 1)
GraphIdle ==
    /\ graph_courses = {}
    /\ similar_to = {}
LearningIdle ==
    /\ target_skill = ""
    /\ start_course_id = None
    /\ max_courses = 5
    /\ path_courses = <<>>
SimilarIdle ==
    /\ course_id = ""
    /\ similar_limit = 10
    /\ similar_courses = <<>>
FeatureIdle ==
    /\ student_data = [student_id |-> ""]
    /\ features = [student_id |-> ""]
ProfileIdle ==
    /\ profile_result = ProfileError("")
NoStudent == Student("", PredictionFails, PredictionFails, FALSE)
AnalysisIdle ==
    /\ target_student = NoStudent
    /\ all_students = <<>>
    /\ top_k = 0
    /\ student_analysis = analyze_student(NoStudent, None, None, None)
    /\ similar_students = <<>>
RerunIdle ==
    /\ primary_domain_again = ""
    /\ cross_domain_again = <<>>
NoRequest ==
    [student_data |-> NoStudent, preferred_difficulty |-> None,
     max_recommendations |-> 1]
NoRecommendResponse ==
    [status |-> 0, student_profile |-> "", risk_level |-> "",
     recommended_courses |-> <<>>, general_recommendations |-> <<>>]
RecommendIdle ==
    /\ request = NoRequest
    /\ recommended_difficulty = ""
    /\ courses = <<>>
    /\ recommend_response = NoRecommendResponse
CallIdle ==
    /\ RecommendIdle
    /\ RerunIdle
    /\ AnalysisIdle
    /\ ProfileIdle
    /\ OutcomeIdle /\ PathIdle /\ DomainIdle /\ OverlapIdle
    /\ GraphIdle /\ LearningIdle /\ SimilarIdle /\ FeatureIdle

(***************************************************************************)
(* SpecCross: direct calls of get_cross_domain_courses                     *)
(***************************************************************************)
InitCross ==
    /\ pc = "call"
    /\ core_courses \in SeqsUpTo(CorePool, MaxCore)
    /\ all_search_results \in {r \in SeqsUpTo(CoursePool, MaxResults) : Injective(r)}
    /\ limit \in 0..MaxLimit
    /\ \E t \in ThresholdChoices :
           /\ min_similarity = t.min_similarity
           /\ min_skill_overlap = t.min_skill_overlap
    /\ primary_domain = ""
    /\ cross_domain_candidates = <<>>
    /\ cross_domain = <<>>
    /\ cd_raised = FALSE
    /\ SearchIdle /\ RiskIdle /\ ServiceIdle /\ BatchIdle /\ CallIdle

\* the primary domains the call can compute: none when it returns or raises
\* before line 142
PrimaryDomainOutcomes(core, search_results) ==
    IF Len(core) = 0 \/ Len(search_results) = 0 THEN {""}
    ELSE IF \E i \in 1..Len(core) : DomainOf(core[i]) = Raise THEN {""}
    ELSE PrimaryDomainChoices(CoreDomains(core))

GetCrossDomainCourses ==
    /\ pc = "call"
    /\ \E pd \in PrimaryDomainOutcomes(core_courses, all_search_results) :
         LET r == get_cross_domain_courses(core_courses, all_search_results,
                      limit, min_similarity, min_skill_overlap, pd)
         IN  /\ primary_domain' = pd
             /\ cross_domain_candidates' = r.candidates
             /\ cross_domain' = r.result
             /\ cd_raised' = r.raised
    /\ pc' = "returned"
    /\ UNCHANGED <<core_courses, all_search_results, limit,
                   min_similarity, min_skill_overlap>>
    /\ UNCHANGED <<searchVars, riskVars, serviceVars, batchVars, callVars>>

NextCross == GetCrossDomainCourses
SpecCross == InitCross /\ [][NextCross]_vars

(***************************************************************************)
(* SpecSearch: one /ai-search request                                      *)
(***************************************************************************)
InitSearch ==
    /\ pc = "search"
    /\ store_rows \in {r \in SeqsUpTo(StoreRows, MaxResults) : Injective(r)}
    /\ learning_path = EmptyPath
    /\ search_response = NoSearchResponse
    /\ CrossIdle /\ RiskIdle /\ ServiceIdle /\ BatchIdle /\ CallIdle

\* raise HTTPException(status_code=500, ...)
ServerError == [NoSearchResponse EXCEPT !.status = 500]

\* Step 1: AISearchService.semantic_search; an exception it re-raises ends
\* the request in the handler's except clause
AiSearchSemanticSearch ==
    /\ pc = "search"
    /\ IF SemanticSearchRaises(store_rows)
       THEN /\ search_response' = ServerError
            /\ pc' = "responded"
            /\ UNCHANGED all_search_results
       ELSE /\ all_search_results' = semantic_search(store_rows)
            /\ pc' = "build"
            /\ UNCHANGED search_response
    /\ UNCHANGED <<core_courses, limit, min_similarity, min_skill_overlap,
                   primary_domain, cross_domain_candidates, cross_domain,
                   cd_raised, store_rows, learning_path>>
    /\ UNCHANGED <<riskVars, serviceVars, batchVars, callVars>>

\* Steps 2 and 3: build_learning_path, then the core courses
AiSearchBuildPath ==
    /\ pc = "build"
    /\ learning_path' = build_learning_path(all_search_results)
    /\ core_courses' = Take(learning_path'.beginner, 3)
                           \o Take(learning_path'.intermediate, 2)
    /\ pc' = "cross"
    /\ UNCHANGED <<all_search_results, limit, min_similarity,
                   min_skill_overlap, primary_domain, cross_domain_candidates,
                   cross_domain, cd_raised, store_rows, search_response>>
    /\ UNCHANGED <<riskVars, serviceVars, batchVars, callVars>>

\* Step 4: get_cross_domain_courses(core_courses, results, limit=3)
AiSearchCrossDomain ==
    /\ pc = "cross"
    /\ \E pd \in PrimaryDomainOutcomes(core_courses, all_search_results) :
         LET r == get_cross_domain_courses(core_courses, all_search_results,
                      limit, min_similarity, min_skill_overlap, pd)
         IN  /\ primary_domain' = pd
             /\ cross_domain_candidates' = r.candidates
             /\ cross_domain' = r.result
             /\ cd_raised' = r.raised
    /\ pc' = "respond"
    /\ UNCHANGED <<core_courses, all_search_results, limit, min_similarity,
                   min_skill_overlap, store_rows, learning_path,
                   search_response>>
    /\ UNCHANGED <<riskVars, serviceVars, batchVars, callVars>>

\* Step 5: the summary and LearningPathResponse(...); a validation error of
\* the response model ends in the handler's except clause
AiSearchRespond ==
    /\ pc = "respond"
    /\ search_response' =
         IF ValidLearningPathResponse(learning_path, cross_domain)
         THEN [status |-> 200, learning_path |-> learning_path,
               cross_domain_courses |-> cross_domain,
               summary |-> Summary(learning_path, cross_domain)]
         ELSE ServerError
    /\ pc' = "responded"
    /\ UNCHANGED <<crossVars, store_rows, learning_path>>
    /\ UNCHANGED <<riskVars, serviceVars, batchVars, callVars>>

NextSearch ==
    \/ AiSearchSemanticSearch
    \/ AiSearchBuildPath
    \/ AiSearchCrossDomain
    \/ AiSearchRespond
SpecSearch == InitSearch /\ [][NextSearch]_vars

(***************************************************************************)
(* SpecRisk: calls of _calculate_risk_level                                *)
(***************************************************************************)
InitRisk ==
    /\ pc = "risk"
    /\ profile = "Unknown"
    /\ outcome \in OutcomeLabels
    /\ confidence \in 0..100
    /\ risk_level = None
    /\ recommendations = <<>>
    /\ CrossIdle /\ SearchIdle /\ ServiceIdle /\ BatchIdle /\ CallIdle

CalculateRiskLevel ==
    /\ pc = "risk"
    /\ risk_level' = _calculate_risk_level(outcome, Hundredths(confidence))
    /\ pc' = "risk_done"
    /\ UNCHANGED <<profile, outcome, confidence, recommendations>>
    /\ UNCHANGED <<crossVars, searchVars, serviceVars, batchVars, callVars>>

NextRisk == CalculateRiskLevel
SpecRisk == InitRisk /\ [][NextRisk]_vars

(***************************************************************************)
(* SpecRecs: calls of _generate_recommendations                            *)
(***************************************************************************)
InitRecs ==
    /\ pc = "recs"
    /\ profile \in ProfileLabels
    /\ outcome \in OutcomeLabels
    /\ confidence = 0
    /\ risk_level \in RiskLevels \cup {None}
    /\ recommendations = <<>>
    /\ CrossIdle /\ SearchIdle /\ ServiceIdle /\ BatchIdle /\ CallIdle

GenerateRecommendations ==
    /\ pc = "recs"
    /\ recommendations' = _generate_recommendations(profile, outcome, risk_level)
    /\ pc' = "recs_done"
    /\ UNCHANGED <<profile, outcome, confidence, risk_level>>
    /\ UNCHANGED <<crossVars, searchVars, serviceVars, batchVars, callVars>>

NextRecs == GenerateRecommendations
SpecRecs == InitRecs /\ [][NextRecs]_vars

(***************************************************************************)
(* SpecBatch: one /learner/batch-analyze request                           *)
(***************************************************************************)
InitBatch ==
    /\ pc = "batch_loop"
    /\ profile_classifier \in {None, "model"}
    /\ outcome_predictor \in {None, "model"}
    /\ embedding_pipeline \in {None, "model"}
    \* BatchAnalysisRequest.students has min_length 1
    /\ students \in SeqsUpTo(StudentPool, MaxStudents) \ {<<>>}
    /\ batch_results = <<>>
    /\ batch_response = NoBatchResponse
    /\ CrossIdle /\ SearchIdle /\ RiskIdle /\ CallIdle

\* One iteration of the loop of lines 349-351: analyze the next student and
\* build its StudentAnalysis.  A validation error leaves the loop for the
\* except clause of line 360, which raises HTTPException(500).
BatchAnalyzeStudent ==
    /\ pc = "batch_loop"
    /\ Len(batch_results) < Len(students)
    /\ LET student == students[Len(batch_results) + 1]
           analysis == analyze_student(student, profile_classifier,
                           outcome_predictor, embedding_pipeline)
       IN  IF ValidStudentAnalysis(analysis)
           THEN /\ batch_results' = Append(batch_results, analysis)
                /\ UNCHANGED <<pc, batch_response>>
           ELSE /\ batch_response' = [NoBatchResponse EXCEPT !.status = 500]
                /\ pc' = "batch_done"
                /\ UNCHANGED batch_results
    /\ UNCHANGED <<students, crossVars, searchVars, riskVars, serviceVars, callVars>>

\* lines 353-359: the loop is over, the response is built
BatchRespond ==
    /\ pc = "batch_loop"
    /\ Len(batch_results) = Len(students)
    /\ batch_response' = [status |-> 200, results |-> batch_results,
                          total_processed |-> Len(batch_results)]
    /\ pc' = "batch_done"
    /\ UNCHANGED <<students, batch_results>>
    /\ UNCHANGED <<crossVars, searchVars, riskVars, serviceVars, callVars>>

NextBatch == BatchAnalyzeStudent \/ BatchRespond
SpecBatch == InitBatch /\ [][NextBatch]_vars

(***************************************************************************)
(* SpecOutcome: calls of predict_outcome                                   *)
(***************************************************************************)
\* confidences around the thresholds of _calculate_risk_level, in hundredths
ConfidenceChoices == {0, 39, 40, 41, 50, 51, 75, 76, 100}

\* predict_proba(...)[0] with probability c for class i and the rest of the
\* mass on the next class
ProbabilitiesFor(i, c) ==
    [j \in 1..Len(OUTCOME_TYPES) |->
        IF j = (i % Len(OUTCOME_TYPES)) + 1 THEN c
        ELSE IF j = ((i + 1) % Len(OUTCOME_TYPES)) + 1 THEN 100 - c
        ELSE 0]

\* what the predictor can answer: a class id, also one outside
\* OUTCOME_TYPES, with its probabilities; or an exception
PredictionChoices ==
    {PredictionFails}
        \cup {Prediction(i, ProbabilitiesFor(i, c)) :
                  i \in (-(Len(OUTCOME_TYPES) + 1))..Len(OUTCOME_TYPES),
                  c \in ConfidenceChoices}

InitOutcome ==
    /\ pc = "predict_outcome"
    /\ outcome_predictor \in {None, "model"}
    /\ profile_classifier = None
    /\ embedding_pipeline = None
    /\ prediction \in PredictionChoices
    /\ outcome_result = OutcomeError("")
    /\ CrossIdle /\ SearchIdle /\ RiskIdle /\ BatchIdle /\ PathIdle
    /\ DomainIdle /\ OverlapIdle /\ GraphIdle /\ LearningIdle
    /\ SimilarIdle /\ FeatureIdle
    /\ ProfileIdle
    /\ AnalysisIdle
    /\ RerunIdle
    /\ RecommendIdle

PredictOutcome ==
    /\ pc = "predict_outcome"
    /\ outcome_result' = predict_outcome(outcome_predictor, prediction)
    /\ pc' = "predict_outcome_done"
    /\ UNCHANGED <<prediction, crossVars, searchVars, riskVars, serviceVars,
                   batchVars, pathVars, domainVars, overlapVars, graphVars,
                   learningVars, similarVars, featureVars>>
    /\ UNCHANGED profileVars
    /\ UNCHANGED analysisVars
    /\ UNCHANGED rerunVars
    /\ UNCHANGED recommendVars

NextOutcome == PredictOutcome
SpecOutcome == InitOutcome /\ [][NextOutcome]_vars

(***************************************************************************)
(* SpecPath: calls of build_learning_path                                  *)
(***************************************************************************)
MaxPathLen == 3

\* courses by difficulty: the four registered labels, a label in another
\* case, an unregistered label, null, and a record without the key
PathCourse(id, difficulty) == [id |-> id, difficulty |-> difficulty]
PathPool ==
    {PathCourse("b", "Beginner"), PathCourse("i", "Intermediate"),
     PathCourse("c", "Conversant"), PathCourse("a", "Advanced"),
     PathCourse("l", "beginner"), PathCourse("x", "Expert"),
     PathCourse("n", None), [id |-> "m"]}

InitPath ==
    /\ pc = "build_learning_path"
    /\ all_search_results \in SeqsUpTo(PathPool, MaxPathLen)
    /\ learning_path = EmptyPath
    /\ rebuilt_path = EmptyPath
    /\ core_courses = <<>>
    /\ limit = 3
    /\ min_similarity = DefaultThresholds.min_similarity
    /\ min_skill_overlap = DefaultThresholds.min_skill_overlap
    /\ primary_domain = ""
    /\ cross_domain_candidates = <<>>
    /\ cross_domain = <<>>
    /\ cd_raised = FALSE
    /\ store_rows = <<>>
    /\ search_response = NoSearchResponse
    /\ RiskIdle /\ ServiceIdle /\ BatchIdle /\ OutcomeIdle /\ DomainIdle
    /\ OverlapIdle /\ GraphIdle /\ LearningIdle
    /\ SimilarIdle /\ FeatureIdle
    /\ ProfileIdle
    /\ AnalysisIdle
    /\ RerunIdle
    /\ RecommendIdle

BuildLearningPath ==
    /\ pc = "build_learning_path"
    /\ learning_path' = build_learning_path(all_search_results)
    /\ pc' = "path_built"
    /\ UNCHANGED <<crossVars, store_rows, search_response, rebuilt_path>>
    /\ UNCHANGED <<riskVars, serviceVars, batchVars, outcomeVars, domainVars,
                   overlapVars, graphVars, learningVars,
                   similarVars, featureVars>>
    /\ UNCHANGED profileVars
    /\ UNCHANGED analysisVars
    /\ UNCHANGED rerunVars
    /\ UNCHANGED recommendVars

\* the groups of the path, flattened in group order, are bucketed again
RebuildLearningPath ==
    /\ pc = "path_built"
    /\ rebuilt_path' = build_learning_path(learning_path.beginner
                            \o learning_path.intermediate
                            \o learning_path.advanced)
    /\ pc' = "path_rebuilt"
    /\ UNCHANGED <<crossVars, searchVars>>
    /\ UNCHANGED <<riskVars, serviceVars, batchVars, outcomeVars, domainVars,
                   overlapVars, graphVars, learningVars,
                   similarVars, featureVars>>
    /\ UNCHANGED profileVars
    /\ UNCHANGED analysisVars
    /\ UNCHANGED rerunVars
    /\ UNCHANGED recommendVars

NextPath == BuildLearningPath \/ RebuildLearningPath
SpecPath == InitPath /\ [][NextPath]_vars

(***************************************************************************)
(* SpecDomain: calls of infer_domain                                       *)
(***************************************************************************)
\* a key the course dict lacks
Absent == "<absent>"
AbsentList == <<Absent>>

SkillsChoices ==
    {AbsentList, NoneList, <<>>, <<"Python">>, <<"Marketing", "Sales">>,
     <<"MBA">>, <<"Design">>, <<"Python", None>>}
DescriptionChoices ==
    {Absent, None, "", "Economics", "Oil painting", "Java and SQL"}
NameChoices == {Absent, None, "Intro", "Marketing 101", "Art History"}

\* the dict with the keys that are not absent
MakeCourse(skills, description, name) ==
    [key \in {"id"}
            \cup (IF skills = AbsentList THEN {} ELSE {"skills"})
            \cup (IF description = Absent THEN {} ELSE {"description"})
            \cup (IF name = Absent THEN {} ELSE {"name"}) |->
        CASE key = "id" -> "c"
          [] key = "skills" -> skills
          [] key = "description" -> description
          [] key = "name" -> name]

DomainPool ==
    {MakeCourse(s, d, n) :
        s \in SkillsChoices, d \in DescriptionChoices, n \in NameChoices}

InitDomain ==
    /\ pc = "infer_domain"
    /\ course_arg \in DomainPool
    /\ domain = ""
    /\ CrossIdle /\ SearchIdle /\ RiskIdle /\ ServiceIdle /\ BatchIdle
    /\ OutcomeIdle /\ PathIdle /\ OverlapIdle /\ GraphIdle /\ LearningIdle
    /\ SimilarIdle /\ FeatureIdle
    /\ ProfileIdle
    /\ AnalysisIdle
    /\ RerunIdle
    /\ RecommendIdle

InferDomain ==
    /\ pc = "infer_domain"
    /\ domain' = infer_domain(course_arg)
    /\ pc' = "infer_domain_done"
    /\ UNCHANGED <<course_arg, crossVars, searchVars, riskVars, serviceVars,
                   batchVars, outcomeVars, pathVars, overlapVars, graphVars,
                   learningVars, similarVars, featureVars>>
    /\ UNCHANGED profileVars
    /\ UNCHANGED analysisVars
    /\ UNCHANGED rerunVars
    /\ UNCHANGED recommendVars

NextDomain == InferDomain
SpecDomain == InitDomain /\ [][NextDomain]_vars

(***************************************************************************)
(* SpecOverlap: calls of calculate_skill_overlap                           *)
(***************************************************************************)
MaxSkills == 3

\* skill names, two of them case variants of one another
SkillNames == {"Python", "python", "SQL", "R"}

\* the lower-cased skills of a list, once each
Normalized(skills) == SetToSeq(Range(LowerAll(skills)))

InitOverlap ==
    /\ pc = "calculate_skill_overlap"
    /\ skills1 \in SeqsUpTo(SkillNames, MaxSkills)
    /\ skills2 \in SeqsUpTo(SkillNames, MaxSkills)
    /\ overlap = Rat(0, 1)
    /\ overlap_reversed = Rat(0, 1)
    /\ overlap_normalized = Rat(0, 1)
    /\ CrossIdle /\ SearchIdle /\ RiskIdle /\ ServiceIdle /\ BatchIdle
    /\ OutcomeIdle /\ PathIdle /\ DomainIdle /\ GraphIdle /\ LearningIdle
    /\ SimilarIdle /\ FeatureIdle
    /\ ProfileIdle
    /\ AnalysisIdle
    /\ RerunIdle
    /\ RecommendIdle

\* the function is applied to the two lists, to the two lists swapped, and
\* to their lower-cased duplicate-free forms
CalculateSkillOverlap ==
    /\ pc = "calculate_skill_overlap"
    /\ overlap' = calculate_skill_overlap(skills1, skills2)
    /\ overlap_reversed' = calculate_skill_overlap(skills2, skills1)
    /\ overlap_normalized' =
           calculate_skill_overlap(Normalized(skills1), Normalized(skills2))
    /\ pc' = "calculate_skill_overlap_done"
    /\ UNCHANGED <<skills1, skills2, crossVars, searchVars, riskVars,
                   serviceVars, batchVars, outcomeVars, pathVars, domainVars,
                   graphVars, learningVars, similarVars, featureVars>>
    /\ UNCHANGED profileVars
    /\ UNCHANGED analysisVars
    /\ UNCHANGED rerunVars
    /\ UNCHANGED recommendVars

NextOverlap == CalculateSkillOverlap
SpecOverlap == InitOverlap /\ [][NextOverlap]_vars

(***************************************************************************)
(* SpecLearning: calls of RecommendationService.get_learning_path          *)
(***************************************************************************)
InitLearning ==
    /\ pc = "get_learning_path"
    /\ graph_courses \in SUBSET GraphPool
    /\ similar_to \in SimilarToChoices
    /\ target_skill \in {"Python", "R", "SQL", "Go"}
    /\ start_course_id \in {None, "", "g1", "g4", "g5"}
    /\ max_courses \in 1..MaxCourses
    /\ path_courses = <<>>
    /\ CrossIdle /\ SearchIdle /\ RiskIdle /\ ServiceIdle /\ BatchIdle
    /\ OutcomeIdle /\ PathIdle /\ DomainIdle /\ OverlapIdle /\ SimilarIdle
    /\ FeatureIdle
    /\ ProfileIdle
    /\ AnalysisIdle
    /\ RerunIdle
    /\ RecommendIdle

GetLearningPath ==
    /\ pc = "get_learning_path"
    /\ path_courses' \in get_learning_path(graph_courses, similar_to,
                             target_skill, start_course_id, max_courses)
    /\ pc' = "get_learning_path_done"
    /\ UNCHANGED <<graphVars, target_skill, start_course_id, max_courses>>
    /\ UNCHANGED <<crossVars, searchVars, riskVars, serviceVars, batchVars,
                   outcomeVars, pathVars, domainVars, overlapVars,
                   similarVars, featureVars>>
    /\ UNCHANGED profileVars
    /\ UNCHANGED analysisVars
    /\ UNCHANGED rerunVars
    /\ UNCHANGED recommendVars

NextLearning == GetLearningPath
SpecLearning == InitLearning /\ [][NextLearning]_vars

(***************************************************************************)
(* SpecSimilar: calls of RecommendationService.get_similar_courses         *)
(***************************************************************************)
InitSimilar ==
    /\ pc = "get_similar_courses"
    /\ graph_courses \in SUBSET GraphPool
    /\ similar_to = {}
    /\ course_id \in {"g1", "g3", "g5", "zz"}
    /\ similar_limit \in 1..MaxSimilar
    /\ similar_courses = <<>>
    /\ CrossIdle /\ SearchIdle /\ RiskIdle /\ ServiceIdle /\ BatchIdle
    /\ OutcomeIdle /\ PathIdle /\ DomainIdle /\ OverlapIdle /\ LearningIdle
    /\ FeatureIdle
    /\ ProfileIdle
    /\ AnalysisIdle
    /\ RerunIdle
    /\ RecommendIdle

GetSimilarCourses ==
    /\ pc = "get_similar_courses"
    /\ similar_courses' \in get_similar_courses(graph_courses, course_id,
                                                similar_limit)
    /\ pc' = "get_similar_courses_done"
    /\ UNCHANGED <<graphVars, course_id, similar_limit>>
    /\ UNCHANGED <<crossVars, searchVars, riskVars, serviceVars, batchVars,
                   outcomeVars, pathVars, domainVars, overlapVars,
                   learningVars, featureVars>>
    /\ UNCHANGED profileVars
    /\ UNCHANGED analysisVars
    /\ UNCHANGED rerunVars
    /\ UNCHANGED recommendVars

NextSimilar == GetSimilarCourses
SpecSimilar == InitSimilar /\ [][NextSimilar]_vars

(***************************************************************************)
(* SpecFeatures: calls of engineer_features                                *)
(***************************************************************************)
\* the other features of the input: none of them, or all with a value
RestDefaults == [name \in {} |-> 0]
RestGiven ==
    [name \in (NumericFeatures \ {"total_clicks", "active_days"})
                 \cup (DOMAIN CategoryDefaults \ {"age_band", "gender"}) |->
        IF name \in NumericFeatures THEN 5 ELSE "other"]

\* the dict that holds the given keys: a value of -1 (numbers) or ""
\* (categories) stands for a key the dict lacks
StudentData(total_clicks, active_days, clicks_per_active_day, age_band, gender, rest) ==
    [name \in (IF total_clicks = -1 THEN {} ELSE {"total_clicks"})
            \cup (IF active_days = -1 THEN {} ELSE {"active_days"})
            \cup (IF clicks_per_active_day = -1 THEN {}
                  ELSE {"clicks_per_active_day"})
            \cup (IF age_band = "" THEN {} ELSE {"age_band"})
            \cup (IF gender = "" THEN {} ELSE {"gender"})
            \cup DOMAIN rest |->
        CASE name = "total_clicks" -> total_clicks
          [] name = "active_days" -> active_days
          [] name = "clicks_per_active_day" -> Rat(clicks_per_active_day, 1)
          [] name = "age_band" -> age_band
          [] name = "gender" -> gender
          [] OTHER -> rest[name]]

InitFeatures ==
    /\ pc = "engineer_features"
    /\ \E total_clicks \in {-1, 0, 7, 12}, active_days \in {-1, 0, 2, 3},
          clicks_per_active_day \in {-1, 99},
          age_band \in {"", "35-55"}, gender \in {"", "F"},
          rest \in {RestDefaults, RestGiven} :
           student_data = StudentData(total_clicks, active_days,
                              clicks_per_active_day, age_band, gender, rest)
    /\ features = [student_id |-> ""]
    /\ CrossIdle /\ SearchIdle /\ RiskIdle /\ ServiceIdle /\ BatchIdle
    /\ OutcomeIdle /\ PathIdle /\ DomainIdle /\ OverlapIdle /\ GraphIdle
    /\ LearningIdle /\ SimilarIdle
    /\ ProfileIdle
    /\ AnalysisIdle
    /\ RerunIdle
    /\ RecommendIdle

EngineerFeatures ==
    /\ pc = "engineer_features"
    /\ features' = engineer_features(student_data)
    /\ pc' = "engineer_features_done"
    /\ UNCHANGED <<student_data, crossVars, searchVars, riskVars, serviceVars,
                   batchVars, outcomeVars, pathVars, domainVars, overlapVars,
                   graphVars, learningVars, similarVars>>
    /\ UNCHANGED profileVars
    /\ UNCHANGED analysisVars
    /\ UNCHANGED rerunVars
    /\ UNCHANGED recommendVars

NextFeatures == EngineerFeatures
SpecFeatures == InitFeatures /\ [][NextFeatures]_vars

(***************************************************************************)
(* SpecClassify: classify_profile, then predict_outcome, on one student    *)
(***************************************************************************)
InitClassify ==
    /\ pc = "classify_profile"
    /\ profile_classifier \in {None, "model"}
    /\ outcome_predictor \in {None, "model"}
    /\ embedding_pipeline = None
    /\ prediction \in PredictionChoices
    /\ profile_result = ProfileError("")
    /\ outcome_result = OutcomeError("")
    /\ CrossIdle /\ SearchIdle /\ RiskIdle /\ BatchIdle /\ PathIdle
    /\ DomainIdle /\ OverlapIdle /\ GraphIdle /\ LearningIdle /\ SimilarIdle
    /\ FeatureIdle
    /\ AnalysisIdle
    /\ RerunIdle
    /\ RecommendIdle

ClassifyProfile ==
    /\ pc = "classify_profile"
    /\ profile_result' = classify_profile(profile_classifier, prediction)
    /\ pc' = "predict_outcome"
    /\ UNCHANGED <<prediction, outcome_result>>
    /\ UNCHANGED <<crossVars, searchVars, riskVars, serviceVars, batchVars,
                   pathVars, domainVars, overlapVars, graphVars,
                   learningVars, similarVars, featureVars>>
    /\ UNCHANGED analysisVars
    /\ UNCHANGED rerunVars
    /\ UNCHANGED recommendVars

NextClassify == ClassifyProfile \/ PredictOutcome
SpecClassify == InitClassify /\ [][NextClassify]_vars

(***************************************************************************)
(* SpecAnalyze: analyze_student, then get_similar_students, for one target *)
(***************************************************************************)
MaxTopK == 2

InitAnalyze ==
    /\ pc = "analyze_student"
    /\ profile_classifier \in {None, "model"}
    /\ outcome_predictor \in {None, "model"}
    /\ embedding_pipeline \in {None, "pipeline"}
    /\ target_student \in StudentPool
    /\ all_students \in SeqsUpTo(StudentPool, MaxStudents)
    /\ top_k \in 0..MaxTopK
    /\ student_analysis = analyze_student(NoStudent, None, None, None)
    /\ similar_students = <<>>
    /\ CrossIdle /\ SearchIdle /\ RiskIdle /\ BatchIdle /\ ProfileIdle
    /\ OutcomeIdle /\ PathIdle /\ DomainIdle /\ OverlapIdle /\ GraphIdle
    /\ LearningIdle /\ SimilarIdle /\ FeatureIdle
    /\ RerunIdle
    /\ RecommendIdle

AnalyzeStudent ==
    /\ pc = "analyze_student"
    /\ student_analysis' = analyze_student(target_student, profile_classifier,
                               outcome_predictor, embedding_pipeline)
    /\ pc' = "get_similar_students"
    /\ UNCHANGED <<target_student, all_students, top_k, similar_students>>
    /\ UNCHANGED <<crossVars, searchVars, riskVars, serviceVars, batchVars,
                   profileVars, outcomeVars, pathVars, domainVars,
                   overlapVars, graphVars, learningVars, similarVars,
                   featureVars>>
    /\ UNCHANGED rerunVars
    /\ UNCHANGED recommendVars

GetSimilarStudents ==
    /\ pc = "get_similar_students"
    /\ similar_students' = get_similar_students(embedding_pipeline,
                               target_student, all_students, top_k)
    /\ pc' = "similar_students_done"
    /\ UNCHANGED <<target_student, all_students, top_k, student_analysis>>
    /\ UNCHANGED <<crossVars, searchVars, riskVars, serviceVars, batchVars,
                   profileVars, outcomeVars, pathVars, domainVars,
                   overlapVars, graphVars, learningVars, similarVars,
                   featureVars>>
    /\ UNCHANGED rerunVars
    /\ UNCHANGED recommendVars

NextAnalyze == AnalyzeStudent \/ GetSimilarStudents
SpecAnalyze == InitAnalyze /\ [][NextAnalyze]_vars

(***************************************************************************)
(* SpecRuns: the same call of get_cross_domain_courses in two runs of the  *)
(* program; str hashes, and with them the iteration order of               *)
(* set(core_domains), are drawn anew in each run                           *)
(***************************************************************************)
InitRuns ==
    /\ pc = "first_run"
    /\ core_courses \in SeqsUpTo(CorePool, MaxCore)
    /\ all_search_results \in {r \in SeqsUpTo(CoursePool, MaxResults) : Injective(r)}
    /\ limit \in 0..MaxLimit
    /\ min_similarity = DefaultThresholds.min_similarity
    /\ min_skill_overlap = DefaultThresholds.min_skill_overlap
    /\ primary_domain = ""
    /\ cross_domain_candidates = <<>>
    /\ cross_domain = <<>>
    /\ cd_raised = FALSE
    /\ primary_domain_again = ""
    /\ cross_domain_again = <<>>
    /\ SearchIdle /\ RiskIdle /\ ServiceIdle /\ BatchIdle /\ AnalysisIdle
    /\ ProfileIdle /\ OutcomeIdle /\ PathIdle /\ DomainIdle /\ OverlapIdle
    /\ GraphIdle /\ LearningIdle /\ SimilarIdle /\ FeatureIdle
    /\ RecommendIdle

FirstRun ==
    /\ pc = "first_run"
    /\ \E pd \in PrimaryDomainOutcomes(core_courses, all_search_results) :
         LET r == get_cross_domain_courses(core_courses, all_search_results,
                      limit, min_similarity, min_skill_overlap, pd)
         IN  /\ primary_domain' = pd
             /\ cross_domain_candidates' = r.candidates
             /\ cross_domain' = r.result
             /\ cd_raised' = r.raised
    /\ pc' = "second_run"
    /\ UNCHANGED <<core_courses, all_search_results, limit,
                   min_similarity, min_skill_overlap>>
    /\ UNCHANGED rerunVars
    /\ UNCHANGED <<searchVars, riskVars, serviceVars, batchVars,
                   analysisVars, profileVars, outcomeVars, pathVars,
                   domainVars, overlapVars, graphVars, learningVars,
                   similarVars, featureVars>>
    /\ UNCHANGED recommendVars

SecondRun ==
    /\ pc = "second_run"
    /\ \E pd \in PrimaryDomainOutcomes(core_courses, all_search_results) :
         LET r == get_cross_domain_courses(core_courses, all_search_results,
                      limit, min_similarity, min_skill_overlap, pd)
         IN  /\ primary_domain_again' = pd
             /\ cross_domain_again' = r.result
    /\ pc' = "runs_done"
    /\ UNCHANGED crossVars
    /\ UNCHANGED <<searchVars, riskVars, serviceVars, batchVars,
                   analysisVars, profileVars, outcomeVars, pathVars,
                   domainVars, overlapVars, graphVars, learningVars,
                   similarVars, featureVars>>
    /\ UNCHANGED recommendVars

NextRuns == FirstRun \/ SecondRun
SpecRuns == InitRuns /\ [][NextRuns]_vars

(***************************************************************************)
(* SpecShared: calls of get_cross_domain_courses whose candidates include  *)
(* a course with skills that differ in letter case only                    *)
(***************************************************************************)
InitShared ==
    /\ pc = "call"
    /\ core_courses \in SeqsUpTo(CorePool, MaxCore)
    /\ all_search_results \in {r \in SeqsUpTo(SharedPool, MaxResults) : Injective(r)}
    /\ limit \in 0..MaxLimit
    /\ \E t \in ThresholdChoices :
           /\ min_similarity = t.min_similarity
           /\ min_skill_overlap = t.min_skill_overlap
    /\ primary_domain = ""
    /\ cross_domain_candidates = <<>>
    /\ cross_domain = <<>>
    /\ cd_raised = FALSE
    /\ SearchIdle /\ RiskIdle /\ ServiceIdle /\ BatchIdle /\ CallIdle

NextShared == GetCrossDomainCourses
SpecShared == InitShared /\ [][NextShared]_vars

(***************************************************************************)
(* SpecWide: /ai-search requests whose search returns up to MaxRows rows   *)
(***************************************************************************)
MaxRows == 5

InitWide ==
    /\ pc = "search"
    /\ store_rows \in {r \in SeqsUpTo(WideRows, MaxRows) : Injective(r)}
    /\ learning_path = EmptyPath
    /\ search_response = NoSearchResponse
    /\ CrossIdle /\ RiskIdle /\ ServiceIdle /\ BatchIdle /\ CallIdle

NextWide ==
    \/ AiSearchSemanticSearch
    \/ AiSearchBuildPath
    \/ AiSearchCrossDomain
    \/ AiSearchRespond
SpecWide == InitWide /\ [][NextWide]_vars

(***************************************************************************)
(* SpecRecommend: one /learner/recommend-courses request                   *)
(***************************************************************************)
MaxRecommendations == 3

InitRecommend ==
    /\ pc = "recommend"
    /\ profile_classifier \in {None, "model"}
    /\ outcome_predictor \in {None, "model"}
    /\ embedding_pipeline = None
    /\ request \in [student_data : RecommendStudents,
                    preferred_difficulty : {None, "", "Beginner", "Expert"},
                    max_recommendations : 1..MaxRecommendations]
    /\ recommended_difficulty = ""
    /\ courses = <<>>
    /\ recommend_response = NoRecommendResponse
    /\ CrossIdle /\ SearchIdle /\ RiskIdle /\ BatchIdle /\ RerunIdle
    /\ AnalysisIdle /\ ProfileIdle /\ OutcomeIdle /\ PathIdle /\ DomainIdle
    /\ OverlapIdle /\ GraphIdle /\ LearningIdle /\ SimilarIdle /\ FeatureIdle

\* lines 373-395: analyze_student, the difficulty, and CourseService.
\* search_courses, which returns at most limit courses of the catalogue in
\* the order of the full-text score, or raises
RecommendSearch ==
    /\ pc = "recommend"
    /\ LET student_profile ==
               analyze_student(request.student_data, profile_classifier,
                   outcome_predictor, embedding_pipeline).profile.profile
       IN  recommended_difficulty' =
               RecommendedDifficulty(request.preferred_difficulty,
                                     student_profile)
    /\ \/ /\ courses' \in {r \in SeqsUpTo(Catalog, request.max_recommendations) :
                              Injective(r)}
          /\ pc' = "score"
          /\ UNCHANGED recommend_response
       \/ /\ recommend_response' = [NoRecommendResponse EXCEPT !.status = 500]
          /\ pc' = "recommended"
          /\ UNCHANGED courses
    /\ UNCHANGED request
    /\ UNCHANGED <<crossVars, searchVars, riskVars, serviceVars, batchVars,
                   rerunVars, analysisVars, profileVars, outcomeVars,
                   pathVars, domainVars, overlapVars, graphVars,
                   learningVars, similarVars, featureVars>>

\* lines 396-441: the scores, the sort and the response; outcome['is_at_risk']
\* and outcome['risk_level'] raise KeyError on the error dict of
\* predict_outcome, which ends in the except clause
RecommendRespond ==
    /\ pc = "score"
    /\ LET student_analysis_ == analyze_student(request.student_data,
                                    profile_classifier, outcome_predictor,
                                    embedding_pipeline)
           outcome_ == student_analysis_.outcome
       IN  recommend_response' =
               IF "risk_level" \notin outcome_.keys
               THEN [NoRecommendResponse EXCEPT !.status = 500]
               ELSE [status |-> 200,
                     student_profile |-> student_analysis_.profile.profile,
                     risk_level |-> outcome_.risk_level,
                     recommended_courses |->
                         RecommendedCourses(courses,
                             student_analysis_.profile.profile,
                             outcome_.is_at_risk,
                             request.max_recommendations),
                     general_recommendations |->
                         student_analysis_.recommendations]
    /\ pc' = "recommended"
    /\ UNCHANGED <<request, recommended_difficulty, courses>>
    /\ UNCHANGED <<crossVars, searchVars, riskVars, serviceVars, batchVars,
                   rerunVars, analysisVars, profileVars, outcomeVars,
                   pathVars, domainVars, overlapVars, graphVars,
                   learningVars, similarVars, featureVars>>

NextRecommend == RecommendSearch \/ RecommendRespond
SpecRecommend == InitRecommend /\ [][NextRecommend]_vars

(***************************************************************************)
(* Properties of get_cross_domain_courses (SpecCross)                      *)
(***************************************************************************)
Returned == pc = "returned"
\* the call reached the loop over all_search_results and completed it
Filtered ==
    /\ pc = "returned"
    /\ ~cd_raised
    /\ Len(core_courses) > 0
    /\ Len(all_search_results) > 0

CoreIds == {core_courses[j].id : j \in 1..Len(core_courses)}
Ids(list) == [i \in 1..Len(list) |-> list[i].id]

\* the lower-cased skill names of a course, and of all core courses
SkillSet(course) == {Lower(course.skills[k]) : k \in 1..Len(course.skills)}
CoreSkillSet == UNION {SkillSet(core_courses[j]) : j \in 1..Len(core_courses)}
SharedWithCore(course) == SkillSet(course) \cap CoreSkillSet
\* Jaccard index of the core skills and the candidate's skills, as n / d
JaccardN(course) ==
    IF CoreSkillSet = {} \/ SkillSet(course) = {} THEN 0
    ELSE Cardinality(SharedWithCore(course))
JaccardD(course) ==
    IF CoreSkillSet = {} \/ SkillSet(course) = {} THEN 1
    ELSE Cardinality(SkillSet(course) \cup CoreSkillSet)

\* similarity_score >= min_similarity, both as hundredths
SimilarityMeets(course) ==
    course.similarity_score * min_similarity[2] >= min_similarity[1] * 100
OverlapMeets(course) ==
    JaccardN(course) * min_skill_overlap[2]
        >= min_skill_overlap[1] * JaccardD(course)

\* C3: no record returned by get_cross_domain_courses carries the id of a
\* course of core_courses.
C3_NoCoreCourseReturned ==
    Returned =>
        \A i \in 1..Len(cross_domain) : cross_domain[i].id \notin CoreIds

\* a search result that is a core course, lies outside the primary domain and
\* meets the similarity threshold: only the id check keeps it out
C3_Witness ==
    /\ Filtered
    /\ cross_domain # <<>>
    /\ \E k \in 1..Len(all_search_results) :
         /\ all_search_results[k].id \in CoreIds
         /\ DomainOf(all_search_results[k]) # primary_domain
         /\ SimilarityMeets(all_search_results[k])

C4_Survives(course) ==
    /\ course.id \notin CoreIds
    /\ DomainOf(course) # primary_domain
    /\ (SimilarityMeets(course) \/ OverlapMeets(course))

C5_Expected(course) ==
    /\ DomainOf(course) \notin {"Other", Raise}
    /\ SimilarityMeets(course)

\* C5 as stated: with an empty core_courses the candidates are evaluated
\* against primary_domain = Other, so a candidate of another domain whose
\* similarity reaches min_similarity is returned (when limit leaves room).
C5_EmptyCoreEvaluatesAgainstOther ==
    (/\ Returned
     /\ ~cd_raised
     /\ Len(core_courses) = 0
     /\ limit >= Len(all_search_results))
    => \A k \in 1..Len(all_search_results) :
           C5_Expected(all_search_results[k])
               => all_search_results[k].id \in Range(Ids(cross_domain))

C5_Count(d) == Cardinality({j \in 1..Len(core_courses) :
                                DomainOf(core_courses[j]) = d})

\* C5, amended: primary_domain is a most frequent inferred domain of the core
\* courses; with an empty core_courses the call computes no primary domain
\* and returns the empty list, whatever the candidates.
C5_PrimaryDomainIsModeAndEmptyCoreReturnsEmpty ==
    /\ Filtered =>
         /\ C5_Count(primary_domain) > 0
         /\ \A j \in 1..Len(core_courses) :
                C5_Count(DomainOf(core_courses[j])) <= C5_Count(primary_domain)
    /\ (Returned /\ Len(core_courses) = 0) =>
         /\ cross_domain = <<>>
         /\ primary_domain = ""

\* three core courses, two of one domain and one of another
C5_Witness ==
    /\ Filtered
    /\ \E j \in 1..Len(core_courses) :
         /\ DomainOf(core_courses[j]) # primary_domain
         /\ C5_Count(DomainOf(core_courses[j])) < C5_Count(primary_domain)

\* an empty core with a candidate of another domain above the threshold
C5_WitnessEmptyCore ==
    /\ Returned
    /\ Len(core_courses) = 0
    /\ limit >= 1
    /\ \E k \in 1..Len(all_search_results) :
           C5_Expected(all_search_results[k])

\* the shared skills of a record, in the order of the candidate's skill list
C6_Shared(course) ==
    SelectSeq2([k \in 1..Len(course.skills) |-> Lower(course.skills[k])],
               CoreSkillSet)
C6_Source(r) ==
    CHOOSE c \in Range(all_search_results) : c.id = r.id
C6_Rule(r) ==
    LET shared == C6_Shared(C6_Source(r))
    IN  IF r.skill_overlap[1] * 10 > 3 * r.skill_overlap[2] /\ shared # <<>>
        THEN "a"
        ELSE IF r.similarity_score[1] * 10 > 8 * r.similarity_score[2]
        THEN "b"
        ELSE IF shared # <<>> THEN "c"
        ELSE "d"
C6_Text(r) ==
    LET shared == C6_Shared(C6_Source(r))
        rule == C6_Rule(r)
    IN  IF rule = "a"
        THEN "Applies " \o primary_domain \o " concepts in " \o r.domain
                 \o " context (shared: " \o Join(Take(shared, 3), ", ") \o ")"
        ELSE IF rule = "b"
        THEN "Highly relevant " \o r.domain \o " perspective on similar topics"
        ELSE IF rule = "c"
        THEN "Complementary " \o r.domain \o " skills ("
                 \o Join(Take(shared, 2), ", ") \o ")"
        ELSE "Related " \o r.domain \o " concepts with transferable knowledge"

\* C6: the reason of every returned record is the text of the first rule that
\* matches, in the order (a) overlap > 0.3 with a shared skill, (b) similarity
\* > 0.8, (c) a shared skill, (d) otherwise; (a) lists at most 3 and (c) at
\* most 2 shared skills.
C6_ReasonByFirstMatchingRule ==
    Returned =>
        \A i \in 1..Len(cross_domain) :
            cross_domain[i].reason = C6_Text(cross_domain[i])

\* one record with overlap > 0.3 and similarity > 0.8 (rule a, four shared
\* skills) next to one with overlap exactly 0.3, similarity exactly 0.8 and a
\* shared skill (rule c)
C6_Witness ==
    /\ Returned
    /\ \E i, j \in 1..Len(cross_domain) :
         /\ C6_Rule(cross_domain[i]) = "a"
         /\ RatGt(cross_domain[i].similarity_score, Rat(8, 10))
         /\ Len(C6_Shared(C6_Source(cross_domain[i]))) > 3
         /\ C6_Rule(cross_domain[j]) = "c"
         /\ cross_domain[j].skill_overlap[1] * 10
                = 3 * cross_domain[j].skill_overlap[2]
         /\ cross_domain[j].similarity_score = Hundredths(80)

C7_Score(r) == RatAdd(r.similarity_score, r.skill_overlap)
C7_Min(a, b) == IF a < b THEN a ELSE b

\* C7: the returned list is in non-increasing order of similarity_score +
\* skill_overlap, has min(limit, number of survivors) entries, all of them
\* survivors, and no survivor left out scores strictly higher than one
\* returned.
C7_TopLimitByCombinedScore ==
    /\ Returned => Len(cross_domain) <= limit
    /\ Filtered =>
         /\ Len(cross_domain) = C7_Min(limit, Len(cross_domain_candidates))
         /\ \A i, j \in 1..Len(cross_domain) :
                i < j => RatGe(C7_Score(cross_domain[i]),
                               C7_Score(cross_domain[j]))
         /\ Range(cross_domain) \subseteq Range(cross_domain_candidates)
         /\ \A c \in Range(cross_domain_candidates) \ Range(cross_domain) :
                \A i \in 1..Len(cross_domain) :
                    RatGe(C7_Score(cross_domain[i]), C7_Score(c))

\* more survivors than limit, found in an order that is not the score order
C7_Witness ==
    /\ Filtered
    /\ limit > 0
    /\ Len(cross_domain_candidates) > limit
    /\ \E i, j \in 1..Len(cross_domain_candidates) :
         /\ i < j
         /\ RatGt(C7_Score(cross_domain_candidates[j]),
                  C7_Score(cross_domain_candidates[i]))


(***************************************************************************)
(* Properties of the /ai-search request (SpecSearch)                       *)
(***************************************************************************)
\* C8: a failure inside get_cross_domain_courses is not propagated: the call
\* returns the empty list, and the /ai-search request around it still
\* answers with its learning path.
C8_CrossDomainFailureKeepsLearningPath ==
    (pc = "responded" /\ cd_raised) =>
        /\ cross_domain = <<>>
        /\ search_response.status = 200
        /\ search_response.learning_path = learning_path

(***************************************************************************)
(* Properties of _calculate_risk_level (SpecRisk)                          *)
(***************************************************************************)
\* the table of the risk levels, confidence in hundredths
C1_Table(outcome_name, c) ==
    IF outcome_name \in {"Fail", "Withdrawn"}
    THEN IF c > 75 THEN "Very High"
         ELSE IF 50 < c /\ c <= 75 THEN "High"
         ELSE "Moderate"
    ELSE IF outcome_name = "Pass"
    THEN IF c < 40 THEN "Moderate" ELSE "Low"
    ELSE "Very Low"

\* C1: for the outcomes Pass, Fail, Distinction and Withdrawn and every
\* confidence in [0, 1], _calculate_risk_level returns the value of the
\* table; the boundaries 0.75, 0.5 and 0.4 give High, Moderate and Low.
C1_RiskLevelMatchesTable ==
    (pc = "risk_done" /\ outcome \in Range(OUTCOME_TYPES)) =>
        risk_level = C1_Table(outcome, confidence)

\* the call at the boundary 0.75
C1_Witness ==
    /\ pc = "risk_done"
    /\ outcome = "Fail"
    /\ confidence = 75
    /\ risk_level = "High"

(***************************************************************************)
(* Properties of _generate_recommendations (SpecRecs)                      *)
(***************************************************************************)
Priorities(recs) == [i \in 1..Len(recs) |-> recs[i].priority]
Types(recs) == [i \in 1..Len(recs) |-> recs[i].type]

C9_ProfilePriorities ==
    IF profile = "Fast Learner" THEN <<"low">>
    ELSE IF profile = "Struggling" THEN <<"high", "high">>
    ELSE IF profile = "Disengaged" THEN <<"critical", "high">>
    ELSE <<>>
C9_RiskPart ==
    IF risk_level \in {"High", "Very High"}
    THEN [priorities |-> <<"critical", "high">>,
          types |-> <<"early_warning", "course_load">>]
    ELSE [priorities |-> <<>>, types |-> <<>>]
C9_OutcomePart ==
    IF outcome = "Withdrawn"
    THEN [priorities |-> <<"critical">>, types |-> <<"retention">>]
    ELSE [priorities |-> <<>>, types |-> <<>>]

\* C9: the recommendations are the profile entries, then the risk entries,
\* then the outcome entries, nothing removed, every priority one of low,
\* high, critical.
C9_RecommendationsInGenerationOrder ==
    pc = "recs_done" =>
        /\ Priorities(recommendations)
               = C9_ProfilePriorities \o C9_RiskPart.priorities
                     \o C9_OutcomePart.priorities
        /\ SubSeq(Types(recommendations), Len(C9_ProfilePriorities) + 1,
                  Len(recommendations))
               = C9_RiskPart.types \o C9_OutcomePart.types
        /\ \A i \in 1..Len(recommendations) :
               recommendations[i].priority \in {"low", "high", "critical"}

\* all three groups contribute: five entries, three of them critical
C9_Witness ==
    /\ pc = "recs_done"
    /\ profile = "Disengaged"
    /\ risk_level = "Very High"
    /\ outcome = "Withdrawn"
    /\ Len(recommendations) = 5

C10_NoProfileOrOutcomeRule ==
    /\ profile \notin {"Fast Learner", "Struggling", "Disengaged"}
    /\ outcome # "Withdrawn"

\* C10 as stated: the list is empty whenever the profile matches no profile
\* rule and the outcome matches no outcome rule, for every risk_level.
C10_EmptyForEveryRiskLevel ==
    (pc = "recs_done" /\ C10_NoProfileOrOutcomeRule) =>
        recommendations = <<>>

\* C10, amended: the list is empty whenever the profile matches no profile
\* rule, the outcome matches no outcome rule and risk_level is neither High
\* nor Very High; with High or Very High it holds the two risk entries.
C10_EmptyUnlessAtRisk ==
    (pc = "recs_done" /\ C10_NoProfileOrOutcomeRule) =>
        IF risk_level \in {"High", "Very High"}
        THEN Types(recommendations) = <<"early_warning", "course_load">>
        ELSE recommendations = <<>>

\* profile Balanced, outcome Fail, a risk level below High
C10_Witness ==
    /\ pc = "recs_done"
    /\ profile = "Balanced"
    /\ outcome = "Fail"
    /\ risk_level = "Moderate"
    /\ recommendations = <<>>

(***************************************************************************)
(* Properties of the /learner/batch-analyze request (SpecBatch)            *)
(***************************************************************************)
\* the student's analysis can be turned into a StudentAnalysis record
C2_Processable(student) ==
    ValidStudentAnalysis(analyze_student(student, profile_classifier,
                             outcome_predictor, embedding_pipeline))
C2_ResponseIds ==
    {batch_response.results[i].student_id :
         i \in 1..Len(batch_response.results)}

\* C2: a student whose processing fails does not abort the batch: the
\* request is answered, and the analysis of every other student is in the
\* response.
C2_FailureDoesNotAbortBatch ==
    pc = "batch_done" =>
        \A i \in 1..Len(students) :
            C2_Processable(students[i])
                => /\ batch_response.status = 200
                   /\ students[i].student_id \in C2_ResponseIds



(***************************************************************************)
(* Properties of predict_outcome (SpecOutcome)                             *)
(***************************************************************************)
OutcomeSucceeded ==
    /\ pc = "predict_outcome_done"
    /\ "error" \notin outcome_result.keys

\* C11: in every successful result of predict_outcome, is_at_risk is true
\* if and only if risk_level is High or Very High.
C11_AtRiskIffHighOrVeryHigh ==
    OutcomeSucceeded =>
        /\ {"is_at_risk", "risk_level"} \subseteq outcome_result.keys
        /\ outcome_result.is_at_risk
               <=> outcome_result.risk_level \in {"High", "Very High"}

\* a successful prediction of Fail with confidence 0.51: High, at risk
C11_Witness ==
    /\ OutcomeSucceeded
    /\ outcome_result.outcome = "Fail"
    /\ outcome_result.risk_level = "High"
    /\ outcome_result.is_at_risk


(***************************************************************************)
(* Properties of build_learning_path (SpecPath)                            *)
(***************************************************************************)
PathBuilt == pc \in {"path_built", "path_rebuilt"}
Labels == {"beginner", "intermediate", "advanced"}

\* the bucket the difficulty of a course names
C12_Bucket(course) ==
    IF "difficulty" \notin DOMAIN course THEN "intermediate"
    ELSE CASE course.difficulty = "Beginner" -> "beginner"
           [] course.difficulty = "Intermediate" -> "intermediate"
           [] course.difficulty = "Conversant" -> "intermediate"
           [] course.difficulty = "Advanced" -> "advanced"
           [] OTHER -> "intermediate"

\* C12: build_learning_path places each course in the bucket given by its
\* difficulty (Beginner -> beginner, Intermediate and Conversant ->
\* intermediate, Advanced -> advanced, anything else, missing or null ->
\* intermediate) and in no other bucket; the buckets hold nothing else.
C12_EachCourseInItsBucket ==
    PathBuilt =>
        /\ \A i \in 1..Len(all_search_results) : \A label \in Labels :
               (all_search_results[i] \in Range(learning_path[label]))
                   <=> (label = C12_Bucket(all_search_results[i]))
        /\ \A label \in Labels :
               Range(learning_path[label]) \subseteq Range(all_search_results)
        /\ Len(learning_path.beginner) + Len(learning_path.intermediate)
               + Len(learning_path.advanced) = Len(all_search_results)

\* a Conversant course, a null difficulty and a record without the key are
\* all in the intermediate bucket
C12_Witness ==
    /\ PathBuilt
    /\ learning_path.intermediate =
           <<PathCourse("c", "Conversant"), PathCourse("n", None), [id |-> "m"]>>

\* bucket is a subsequence of results: its entries occur in results at
\* strictly increasing positions
IsSubsequence(bucket, results) ==
    \E f \in [1..Len(bucket) -> 1..Len(results)] :
        /\ \A i \in 1..Len(bucket) : results[f[i]] = bucket[i]
        /\ \A i \in 1..Len(bucket) : \A j \in 1..Len(bucket) :
               i < j => f[i] < f[j]

\* C13: build_learning_path preserves input order inside each bucket, and
\* bucketing the flattened path again gives the same path.
C13_OrderPreservedAndIdempotent ==
    /\ PathBuilt =>
           \A label \in Labels :
               IsSubsequence(learning_path[label], all_search_results)
    /\ pc = "path_rebuilt" => rebuilt_path = learning_path

\* two courses of the intermediate bucket keep their input order around a
\* Beginner course, and the path has been bucketed again
C13_Witness ==
    /\ pc = "path_rebuilt"
    /\ all_search_results = <<PathCourse("x", "Expert"),
                               PathCourse("b", "Beginner"),
                               PathCourse("i", "Intermediate")>>
    /\ learning_path.intermediate =
           <<PathCourse("x", "Expert"), PathCourse("i", "Intermediate")>>
    /\ rebuilt_path = learning_path


(***************************************************************************)
(* Properties of infer_domain (SpecDomain)                                 *)
(***************************************************************************)
DomainInferred == pc = "infer_domain_done"

\* the lower-cased text of a course: skills, description and name, an
\* absent field counting as empty
C14_Text ==
    lower(Join(<<Join(IF "skills" \in DOMAIN course_arg THEN course_arg.skills
                      ELSE <<>>, " "),
                 IF "description" \in DOMAIN course_arg THEN course_arg.description
                 ELSE "",
                 IF "name" \in DOMAIN course_arg THEN course_arg.name ELSE "">>, " "))
\* the number of keywords of the d-th registered domain that occur in it
C14_Count(d) ==
    Cardinality({k \in 1..Len(DOMAIN_KEYWORDS[d].keywords) :
                    Contains(C14_Text, DOMAIN_KEYWORDS[d].keywords[k])})

\* C14: infer_domain returns the domain with the most keywords occurring
\* in the lower-cased text; of several domains with the highest count the
\* one registered first wins; with no count above 0 it returns Other.
C14_HighestCountFirstRegisteredWins ==
    (DomainInferred /\ domain # Raise) =>
        IF \A d \in 1..Len(DOMAIN_KEYWORDS) : C14_Count(d) = 0
        THEN domain = "Other"
        ELSE \E d \in 1..Len(DOMAIN_KEYWORDS) :
                /\ domain = DOMAIN_KEYWORDS[d].domain
                /\ C14_Count(d) > 0
                /\ \A e \in 1..Len(DOMAIN_KEYWORDS) :
                       /\ C14_Count(e) <= C14_Count(d)
                       /\ e < d => C14_Count(e) < C14_Count(d)

\* one Computer Science keyword (python) and one Business keyword
\* (marketing), nothing else: Computer Science
C14_Witness ==
    /\ DomainInferred
    /\ course_arg = MakeCourse(<<"Python">>, "", "Marketing 101")
    /\ C14_Count(1) = 1
    /\ C14_Count(2) = 1
    /\ domain = "Computer Science"

\* C15: infer_domain never raises, whatever field of the course_arg record is
\* absent or null.
C15_InferDomainNeverRaises ==
    DomainInferred => domain # Raise


(***************************************************************************)
(* Properties of calculate_skill_overlap (SpecOverlap)                     *)
(***************************************************************************)
OverlapCalculated == pc = "calculate_skill_overlap_done"
RatEq(a, b) == a[1] * b[2] = b[1] * a[2]

\* A' and B': the sets of lower-cased skill names
C16_A == {lower(skills1[i]) : i \in 1..Len(skills1)}
C16_B == {lower(skills2[i]) : i \in 1..Len(skills2)}

\* C16: calculate_skill_overlap(A, B) is |A' \cap B'| / |A' \cup B'| on the
\* sets of lower-cased names and 0 when an input is empty; it lies in
\* [0, 1], is 1 exactly when A' = B' is non-empty, and duplicates or case
\* variants in an input do not change it.
C16_JaccardOfLowerCasedSets ==
    OverlapCalculated =>
        /\ overlap[2] > 0
        /\ IF skills1 = <<>> \/ skills2 = <<>>
           THEN overlap[1] = 0
           ELSE overlap[1] * Cardinality(C16_A \cup C16_B)
                    = Cardinality(C16_A \cap C16_B) * overlap[2]
        /\ 0 <= overlap[1] /\ overlap[1] <= overlap[2]
        /\ (overlap[1] = overlap[2]) <=> (C16_A = C16_B /\ C16_A # {})
        /\ RatEq(overlap, overlap_normalized)

\* [Python, SQL] against [python, R]: 1/3
C16_Witness ==
    /\ OverlapCalculated
    /\ skills1 = <<"Python", "SQL">>
    /\ skills2 = <<"python", "R">>
    /\ RatEq(overlap, Rat(1, 3))

\* C17: calculate_skill_overlap(A, B) = calculate_skill_overlap(B, A).
C17_OverlapIsSymmetric ==
    OverlapCalculated => RatEq(overlap, overlap_reversed)

\* lists of different sizes that share a skill: 1/2 both ways
C17_Witness ==
    /\ OverlapCalculated
    /\ skills1 = <<"Python">>
    /\ skills2 = <<"python", "python", "R">>
    /\ RatEq(overlap, Rat(1, 2))
    /\ RatEq(overlap_reversed, Rat(1, 2))


(***************************************************************************)
(* Properties of get_learning_path (SpecLearning)                          *)
(***************************************************************************)
LearningPathReturned == pc = "get_learning_path_done"

\* no start course is given
C18_NoStart == start_course_id \in {None, ""}
\* a start course is given and the graph holds no path from it to a course
\* teaching target_skill
C18_NoPath ==
    /\ ~C18_NoStart
    /\ ShortestPaths(graph_courses, similar_to, start_course_id,
                     target_skill) = {}
\* ascending difficulty order, then descending rating
C18_Before(a, b) ==
    /\ a.difficulty # NoDifficulty
    /\ b.difficulty # NoDifficulty
    /\ \/ a.difficulty.order < b.difficulty.order
       \/ a.difficulty.order = b.difficulty.order /\ a.rating > b.rating
\* the skill-based listings: all courses teaching target_skill, in that
\* order, at most max_courses of them
C18_Teaching == {c \in graph_courses : target_skill \in c.skills}
C18_Listings ==
    {Take(seq, max_courses) :
        seq \in Orderings(C18_Teaching,
                          {pair \in C18_Teaching \X C18_Teaching :
                              C18_Before(pair[1], pair[2])})}

\* C18: get_learning_path returns the skill-based listing both when no
\* start_course_id is given and when one is given but the graph holds no
\* path from it to a course teaching target_skill.
C18_FallsBackToSkillListing ==
    (LearningPathReturned /\ (C18_NoStart \/ C18_NoPath)) =>
        path_courses \in C18_Listings


(***************************************************************************)
(* Properties of get_similar_courses (SpecSimilar)                         *)
(***************************************************************************)
SimilarReturned == pc = "get_similar_courses_done"

\* the number of skills a course shares with the target course
C19_Shared(c) ==
    Cardinality({sk \in c.skills :
                    \E t \in graph_courses : t.id = course_id /\ sk \in t.skills})

\* C19: get_similar_courses returns candidates by non-increasing number of
\* skills shared with the target, equal counts by non-increasing rating;
\* each shares a skill with the target, none is the target, and there are
\* at most limit of them.
C19_BySharedSkillsThenRating ==
    SimilarReturned =>
        /\ Len(similar_courses) <= similar_limit
        /\ \A i \in 1..Len(similar_courses) :
               /\ similar_courses[i] \in graph_courses
               /\ similar_courses[i].id # course_id
               /\ C19_Shared(similar_courses[i]) >= 1
        /\ \A i, j \in 1..Len(similar_courses) :
               i < j =>
                   /\ C19_Shared(similar_courses[i])
                          >= C19_Shared(similar_courses[j])
                   /\ C19_Shared(similar_courses[i])
                          = C19_Shared(similar_courses[j])
                      => similar_courses[i].rating
                             >= similar_courses[j].rating

\* target g3 in the full graph, limit 3: g1 shares two skills, then g5 and
\* g2 share one each and come by rating; g4 is cut off
C19_Witness ==
    /\ SimilarReturned
    /\ graph_courses = GraphPool
    /\ course_id = "g3"
    /\ [i \in 1..Len(similar_courses) |-> similar_courses[i].id]
           = <<"g1", "g5", "g2">>


(***************************************************************************)
(* Properties of engineer_features (SpecFeatures)                          *)
(***************************************************************************)
FeaturesEngineered == pc = "engineer_features_done"

\* the documented defaults
C20_Default(name) ==
    CASE name = "age_band" -> "0-35"
      [] name = "gender" -> "M"
      [] name = "disability" -> "N"
      [] name = "highest_education" -> "A Level or Equivalent"
      [] name = "region" -> "Unknown"
      [] name = "imd_band" -> "50-75%"
      [] OTHER -> 0
\* total_clicks and active_days as the features hold them
C20_TotalClicks ==
    IF "total_clicks" \in DOMAIN student_data THEN student_data.total_clicks
    ELSE 0
C20_ActiveDays ==
    IF "active_days" \in DOMAIN student_data THEN student_data.active_days
    ELSE 0

\* C20: engineer_features fills every named feature from the input, with
\* the documented default when the key is absent; clicks_per_active_day is
\* total_clicks / active_days when active_days > 0 and 0 otherwise, whatever
\* clicks_per_active_day the input holds.
C20_FeaturesWithDefaultsAndDerivedRatio ==
    FeaturesEngineered =>
        /\ DOMAIN features = NumericFeatures
               \cup {"age_band", "gender", "disability", "highest_education",
                     "region", "imd_band", "clicks_per_active_day"}
        /\ \A name \in DOMAIN features \ {"clicks_per_active_day"} :
               features[name] = IF name \in DOMAIN student_data
                                THEN student_data[name]
                                ELSE C20_Default(name)
        /\ IF C20_ActiveDays > 0
           THEN features.clicks_per_active_day[1] * C20_ActiveDays
                    = C20_TotalClicks * features.clicks_per_active_day[2]
           ELSE features.clicks_per_active_day[1] = 0
        /\ features.clicks_per_active_day[2] > 0

\* engineer_features({}): all defaults, clicks_per_active_day 0
C20_WitnessEmptyInput ==
    /\ FeaturesEngineered
    /\ DOMAIN student_data = {}
    /\ features.total_clicks = 0
    /\ features.region = "Unknown"
    /\ features.clicks_per_active_day[1] = 0

\* 7 clicks on 2 active days with a clicks_per_active_day of 99 supplied:
\* the feature is 7/2
C20_Witness ==
    /\ FeaturesEngineered
    /\ {"total_clicks", "active_days", "clicks_per_active_day"}
           \subseteq DOMAIN student_data
    /\ student_data.clicks_per_active_day = Rat(99, 1)
    /\ student_data.total_clicks = 7
    /\ student_data.active_days = 2
    /\ features.clicks_per_active_day = Rat(7, 2)


(***************************************************************************)
(* Properties of classify_profile and predict_outcome (SpecClassify)       *)
(***************************************************************************)
\* the shape of a failure result: Unknown, confidence 0.0, a message
C21_IsFailure(result, label) ==
    /\ "error" \in result.keys
    /\ result[label] = "Unknown"
    /\ result.confidence[1] = 0
    /\ result.error # ""

StudentAnalyzed == pc \in {"get_similar_students", "similar_students_done"}
SimilarStudentsReturned == pc = "similar_students_done"
C22_NoEmbedding ==
    embedding_pipeline = None \/ target_student.transform_raises

\* C22: whatever the classifier, the predictor and the pipeline do,
\* analyze_student returns a record with student_id, profile, outcome,
\* embedding and recommendations; without an embedding pipeline, or with
\* one that fails, the embedding is None and get_similar_students returns
\* the empty list.
C22_AnalysisAlwaysReturned ==
    /\ StudentAnalyzed =>
        /\ DOMAIN student_analysis = {"student_id", "profile", "outcome",
                                      "embedding", "recommendations"}
        /\ student_analysis.student_id = target_student.student_id
        /\ student_analysis.profile.profile \in ProfileLabels
        /\ student_analysis.outcome.outcome \in OutcomeLabels
        /\ student_analysis.embedding # Raise
        /\ \A i \in 1..Len(student_analysis.recommendations) :
               student_analysis.recommendations[i].priority
                   \in {"low", "high", "critical"}
        /\ C22_NoEmbedding => student_analysis.embedding = None
    /\ SimilarStudentsReturned /\ C22_NoEmbedding => similar_students = <<>>

\* the pipeline is loaded and fails on the target while both models work,
\* and there are other students to compare with
C22_Witness ==
    /\ SimilarStudentsReturned
    /\ embedding_pipeline # None
    /\ target_student.transform_raises
    /\ profile_classifier # None
    /\ outcome_predictor # None
    /\ Len(OtherStudents(target_student, all_students)) > 0
    /\ student_analysis.embedding = None
    /\ similar_students = <<>>


C30_Embeddable(other) ==
    get_student_embedding(embedding_pipeline, other) # None

\* C30: get_similar_students never returns the target's student_id,
\* returns at most top_k entries in non-increasing similarity order, and a
\* student that cannot be embedded costs only its own entry: the other
\* students whose embedding worked are still ranked.
C30_FailedEmbeddingKeepsTheOthers ==
    SimilarStudentsReturned =>
        /\ \A i \in 1..Len(similar_students) :
               similar_students[i].student.student_id
                   # target_student.student_id
        /\ Len(similar_students) <= top_k
        /\ \A i \in 1..(Len(similar_students) - 1) :
               RatGe(similar_students[i].similarity,
                     similar_students[i + 1].similarity)
        /\ (embedding_pipeline # None /\ C30_Embeddable(target_student)) =>
               LET ranked == SelectSeq(
                       OtherStudents(target_student, all_students),
                       C30_Embeddable)
               IN  Len(similar_students) =
                       (IF Len(ranked) < top_k THEN Len(ranked) ELSE top_k)


C23_Buckets == <<learning_path.beginner, learning_path.intermediate,
                 learning_path.advanced>>

\* C23: build_learning_path partitions its input: every course occurs in
\* the three buckets together as often as in search_results and in one
\* bucket only, a bucket holds no course that is not in the input, and the
\* summary of the built path has total_courses = beginner_count +
\* intermediate_count + advanced_count = len(search_results).
C23_BucketsPartitionTheInput ==
    PathBuilt =>
        /\ \A c \in PathPool :
               /\ CountOf(all_search_results, c)
                      = CountOf(C23_Buckets[1], c) + CountOf(C23_Buckets[2], c)
                            + CountOf(C23_Buckets[3], c)
               /\ Cardinality({b \in 1..3 : CountOf(C23_Buckets[b], c) > 0}) <= 1
        /\ \A b \in 1..3 : Range(C23_Buckets[b]) \subseteq Range(all_search_results)
        /\ LET summary == get_learning_path_summary(learning_path)
           IN  /\ summary.total_courses = summary.beginner_count
                      + summary.intermediate_count + summary.advanced_count
               /\ summary.total_courses = Len(all_search_results)

\* one course given twice and courses for the two other buckets
C23_Witness ==
    /\ PathBuilt
    /\ Len(all_search_results) = 3
    /\ all_search_results[1] = all_search_results[3]
    /\ Len(learning_path.beginner) = 2
    /\ Len(learning_path.advanced) = 1


(***************************************************************************)
(* Properties of get_cross_domain_courses across runs (SpecRuns)           *)
(***************************************************************************)
\* C24: two calls of get_cross_domain_courses with the same core_courses,
\* all_search_results, limit and thresholds return the same list, also when
\* several domains are equally frequent among the core courses.
C24_SameArgumentsSameList ==
    pc = "runs_done" => cross_domain_again = cross_domain


(***************************************************************************)
(* Risk of an outcome outside OUTCOME_TYPES (SpecOutcome)                  *)
(***************************************************************************)
\* C25: a student whose predicted outcome is none of Pass, Fail,
\* Distinction and Withdrawn is never given risk_level "Very Low":
\* predict_outcome reports "Very Low" for outcome Distinction only.
C25_VeryLowOnlyForDistinction ==
    (OutcomeSucceeded /\ outcome_result.risk_level = "Very Low")
        => outcome_result.outcome = "Distinction"


(***************************************************************************)
(* Properties of the reasons of get_cross_domain_courses (SpecShared)      *)
(***************************************************************************)
\* the pieces of text between the occurrences of sep
RECURSIVE Split(_, _)
Split(text, sep) ==
    IF ~Contains(text, sep) THEN <<text>>
    ELSE LET i == CHOOSE k \in 1..(Len(text) - Len(sep) + 1) :
                      /\ SubSeq(text, k, k + Len(sep) - 1) = sep
                      /\ \A j \in 1..(k - 1) :
                             SubSeq(text, j, j + Len(sep) - 1) # sep
         IN  <<SubSeq(text, 1, i - 1)>>
                 \o Split(SubSeq(text, i + Len(sep), Len(text)), sep)

\* the skills a reason shows: the list between its parentheses, if any
C26_ShownSkills(reason) ==
    IF ~Contains(reason, "(") THEN <<>>
    ELSE LET inner == Split(Split(reason, "(")[2], ")")[1]
             list == IF Contains(inner, "shared: ")
                     THEN Split(inner, "shared: ")[2] ELSE inner
         IN  Split(list, ", ")

C26_Candidate(record) ==
    CHOOSE c \in Range(all_search_results) : c.id = record.id

C26_IsFallback(record) ==
    Contains(record.reason, "concepts with transferable knowledge")

\* C26: in every record returned, skill_overlap > 0 exactly when the
\* candidate shares a lower-cased skill with the core skills; the reason
\* "Related ... concepts with transferable knowledge" appears only with
\* skill_overlap = 0 and min_similarity <= similarity_score <= 0.8; and the
\* shared skills shown in a reason are all different.
C26_ReasonsMatchTheOverlap ==
    pc = "returned" =>
        \A i \in 1..Len(cross_domain) :
            LET record == cross_domain[i]
                shown == C26_ShownSkills(record.reason)
            IN  /\ RatGt(record.skill_overlap, Rat(0, 1))
                     <=> (Range(LowerAll(C26_Candidate(record).skills))
                              \cap CoreSkills(core_courses) # {})
                /\ C26_IsFallback(record) =>
                       /\ record.skill_overlap[1] = 0
                       /\ RatGe(record.similarity_score, min_similarity)
                       /\ RatGe(Rat(8, 10), record.similarity_score)
                /\ \A j, k \in 1..Len(shown) : shown[j] = shown[k] => j = k


(***************************************************************************)
(* Properties of the /ai-search orchestration (SpecWide)                   *)
(***************************************************************************)
C27_CoreOf(path) == Take(path.beginner, 3) \o Take(path.intermediate, 2)
C27_Answered == pc = "responded" /\ search_response.status = 200

C27_WitnessNoCore ==
    /\ C27_Answered
    /\ Len(search_response.learning_path.advanced) = 3
    /\ core_courses = <<>>
    /\ search_response.cross_domain_courses = <<>>


\* C28: every registered keyword counts whatever its letter case: a course
\* whose text contains a keyword of DOMAIN_KEYWORDS, compared without
\* regard to case, is never classified as Other.
C28_KeywordInAnyCaseCounts ==
    (DomainInferred /\ domain # Raise
        /\ \E d \in 1..Len(DOMAIN_KEYWORDS) :
               \E k \in 1..Len(DOMAIN_KEYWORDS[d].keywords) :
                   Contains(C14_Text, lower(DOMAIN_KEYWORDS[d].keywords[k])))
        => domain # "Other"


(***************************************************************************)
(* Properties of /learner/recommend-courses (SpecRecommend)                *)
(***************************************************************************)
C29_Answered == pc = "recommended" /\ recommend_response.status = 200

\* C29: in every successful response each recommended course has a
\* match_score from 0.8 to 1.0, the courses are in non-increasing order of
\* match_score and at most max_recommendations in number; the difficulty
\* searched is preferred_difficulty when one is given, otherwise Advanced
\* for Fast Learner, Intermediate for Balanced, Beginner for Struggling
\* and Disengaged, Intermediate for any other profile.
C29_ScoresOrderCountAndDifficulty ==
    C29_Answered =>
        LET recommended == recommend_response.recommended_courses
            student_profile == recommend_response.student_profile
            preferred == request.preferred_difficulty
        IN  /\ \A i \in 1..Len(recommended) :
                   /\ 80 <= recommended[i].match_score
                   /\ recommended[i].match_score <= 100
            /\ \A i \in 1..(Len(recommended) - 1) :
                   recommended[i].match_score >= recommended[i + 1].match_score
            /\ Len(recommended) <= request.max_recommendations
            /\ recommended_difficulty =
                   IF preferred \notin {None, ""} THEN preferred
                   ELSE IF student_profile = "Fast Learner" THEN "Advanced"
                   ELSE IF student_profile = "Balanced" THEN "Intermediate"
                   ELSE IF student_profile = "Struggling" THEN "Beginner"
                   ELSE IF student_profile = "Disengaged" THEN "Beginner"
                   ELSE "Intermediate"

\* a Struggling student at risk, no preferred difficulty: three courses
\* found in rising order of score, the best of them capped at 1.0
C29_Witness ==
    /\ C29_Answered
    /\ recommend_response.student_profile = "Struggling"
    /\ request.preferred_difficulty = None
    /\ recommended_difficulty = "Beginner"
    /\ Len(courses) = 3
    /\ RawMatchScore(courses[3], "Struggling", TRUE) > 100
    /\ RawMatchScore(courses[1], "Struggling", TRUE) = 80
    /\ recommend_response.recommended_courses[1].course_id = courses[3].id
    /\ recommend_response.recommended_courses[1].match_score = 100

====
